---- MODULE Spec2Model ----
(***************************************************************************)
(* CaminoSeguro backend: POST /api/reports and the heat-zone accumulator   *)
(* updateHeatZone, over the heat_zones and reports tables; the scoring and *)
(* heat map endpoints; the accounts, the middleware verifyToken,           *)
(* isAuthority and isAdmin, and the endpoints behind them.                 *)
(*                                                                         *)
(* Coordinates are integers counted in nanodegrees (1e-9 degree).  All     *)
(* modelled points lie on one meridian, where the SQL expression           *)
(*   6371 * acos(cos(a)cos(b)cos(dl) + sin(a)sin(b))                       *)
(* is 6371 km times the latitude difference in radians.  Characters with   *)
(* an accent are written as ASCII names ("oacute" is o with acute accent). *)
(***************************************************************************)
EXTENDS Integers, Sequences, FiniteSets, TLC

----------------------------------------------------------------------------
(* Bounds of the model *)

\* requests received in one behaviour of Spec
MaxRequests == 2
\* requests received in one behaviour of SpecSerial
MaxSerialRequests == 3
\* the last reading of CURRENT_TIMESTAMP
MaxTime == 1
\* requests received in one behaviour of SpecSeq
MaxSeqIncidents == 11
\* requests received in one behaviour of SpecRace
MaxRaceRequests == 3
\* rows of the help_points table
HelpRows == 13
\* alerts created in one behaviour of SpecAuthority
MaxAlerts == 1
\* reports created in one behaviour of SpecReports
MaxReported == 2
\* the views counted of one report in one behaviour of SpecReports
MaxViews == 1
\* accounts registered in one behaviour of SpecAccounts
MaxRegistered == 1
\* accounts deactivated in one behaviour of SpecAccounts, after the one that
\* is inactive from the start
MaxDeactivated == 1
\* help points deactivated in one behaviour of SpecScore, after the one that
\* is inactive from the start
MaxInactive == 1

----------------------------------------------------------------------------
(* Program constants *)

\* Math.min(10, ...) of updateHeatZone
IntensityCap == 10
\* "<= 0.1" km of the lookup: 0.1 / (6371 * pi / 180) degrees, in nanodegrees
NearNanoDeg == 899321
\* DECIMAL(10, 8): a stored coordinate keeps 8 decimals, 10 nanodegrees
StoreScale == 10
\* incident_count INTEGER: the largest int4
PgIntMax == 2147483647
\* 1 km of the great circle of 6371 km: 1 / (6371 * pi / 180) degrees, in
\* nanodegrees
KmNanoDeg == 8993216
\* "radius = 5" of the safety-score
DefaultRadiusKm == 5
\* "<= 2" km of the heat_zones query of the route
RouteZoneKm == 2
\* "<= 1" km of the help_points query of the route
HelpKm == 1
\* "LIMIT 10" of the help_points query of the route
HelpLimit == 10
\* "let safetyScore = 100", and the upper end of the clamp
FullScore == 100
\* "zone.intensity * 2"
PenaltyFactor == 2
\* "safetyScore >= 80"
HighFrom == 80
\* "safetyScore >= 50"
MediumFrom == 50
\* "asumiendo 30 km/h promedio en ciudad"
SpeedKmh == 30
\* "radius = 20" of the heat map
HeatmapRadiusKm == 20
\* "minIntensity = 1" of the heat map
DefaultMinIntensity == 1
\* "radius = 10" of the summary
SummaryRadiusKm == 10
\* "radius = 50" of the high-risk zones
HighRiskRadiusKm == 50
\* "limit = 10" of the high-risk zones
HighRiskLimit == 10
\* "WHERE intensity >= 7" of the high-risk zones
HighRiskFrom == 7
\* "LIMIT 10" of the recent reports of the dashboard
DashboardLimit == 10
\* "limit = 20" of the list of reports
ListLimit == 20
\* "isLength({ min: 6 })" of the password
MinPassword == 6

\* the slots of the requests in progress: two requests can overlap
Procs == {1, 2}

Abs(x) == IF x < 0 THEN -x ELSE x

Min(a, b) == IF a <= b THEN a ELSE b

----------------------------------------------------------------------------
(* Incident labels, as the sequences of their characters *)

\* "Accidente de tránsito"
LabelAccidente ==
    <<"A","c","c","i","d","e","n","t","e"," ","d","e"," ","t","r","aacute","n","s","i","t","o">>
\* "Robo a mano armada"
LabelRobo ==
    <<"R","o","b","o"," ","a"," ","m","a","n","o"," ","a","r","m","a","d","a">>
\* "Congestión vehicular"
LabelCongestion ==
    <<"C","o","n","g","e","s","t","i","oacute","n"," ","v","e","h","i","c","u","l","a","r">>
\* "Poste caído"
LabelPoste ==
    <<"P","o","s","t","e"," ","c","a","iacute","d","o">>
\* "ROBO"
LabelRoboUpper ==
    <<"R","O","B","O">>
\* "Crimen"
LabelCrimen ==
    <<"C","r","i","m","e","n">>
\* "TRÁFICO"
LabelTraficoUpper ==
    <<"T","R","Aacute","F","I","C","O">>
\* "Robo tras accidente"
LabelRoboAccidente ==
    <<"R","o","b","o"," ","t","r","a","s"," ","a","c","c","i","d","e","n","t","e">>
\* "Tráfico por robo"
LabelTraficoRobo ==
    <<"T","r","aacute","f","i","c","o"," ","p","o","r"," ","r","o","b","o">>
\* " robo "
LabelPadded ==
    <<" ","r","o","b","o"," ">>
\* "Congestion", without the accent
LabelNoAccent ==
    <<"C","o","n","g","e","s","t","i","o","n">>
\* "", and a missing incidentType
LabelBlank ==
    <<>>
\* "  "
LabelSpaces ==
    <<" "," ">>

\* the labels requests carry in SpecSeq
SeqLabels ==
    {LabelAccidente, LabelRobo, LabelCongestion, LabelPoste, LabelRoboUpper,
     LabelCrimen, LabelTraficoUpper, LabelRoboAccidente, LabelTraficoRobo,
     LabelPadded, LabelNoAccent, LabelBlank, LabelSpaces}

\* latitudes of the incidents, in nanodegrees: 0 and -600000 are within 0.1 km
\* of each other, -600000 and -899324 too, 0 and -899324 are not; -899324 has
\* nine decimals
Lats == {0, -600000, -899324}

\* the one meridian of the model
Lng == 0

----------------------------------------------------------------------------
(* String operations of JavaScript and express-validator *)

UpperChars ==
    <<"A","B","C","D","E","F","G","H","I","J","K","L","M","N","O","P","Q","R","S","T","U","V","W","X","Y","Z","Aacute","Eacute","Iacute","Oacute","Uacute">>

LowerChars ==
    <<"a","b","c","d","e","f","g","h","i","j","k","l","m","n","o","p","q","r","s","t","u","v","w","x","y","z","aacute","eacute","iacute","oacute","uacute">>

\* String.prototype.toLowerCase, one character
LowerChar(c) ==
    IF \E i \in DOMAIN UpperChars : UpperChars[i] = c
    THEN LowerChars[CHOOSE i \in DOMAIN UpperChars : UpperChars[i] = c]
    ELSE c

\* String.prototype.toLowerCase
toLowerCase(s) == [i \in DOMAIN s |-> LowerChar(s[i])]

\* String.prototype.includes
includes(s, kw) ==
    \E i \in 1..(Len(s) - Len(kw) + 1) : SubSeq(s, i, i + Len(kw) - 1) = kw

RECURSIVE TrimLeft(_)
TrimLeft(s) == IF s # <<>> /\ Head(s) = " " THEN TrimLeft(Tail(s)) ELSE s

RECURSIVE TrimRight(_)
TrimRight(s) ==
    IF s # <<>> /\ s[Len(s)] = " " THEN TrimRight(SubSeq(s, 1, Len(s) - 1)) ELSE s

\* the sanitizer .trim() of reportValidation
trim(s) == TrimRight(TrimLeft(s))

KwAccidente == <<"a","c","c","i","d","e","n","t","e">>
KwRobo == <<"r","o","b","o">>
KwCrimen == <<"c","r","i","m","e","n">>
KwCongestion == <<"c","o","n","g","e","s","t","i","oacute","n">>
KwTrafico == <<"t","r","aacute","f","i","c","o">>

ZoneTypes == {"crime", "accident", "congestion", "danger"}

\* a bug of the classification: the crime keywords are tried first
ZoneTypeOf_CrimeFirst(incidentType) ==
    IF includes(toLowerCase(incidentType), KwRobo)
       \/ includes(toLowerCase(incidentType), KwCrimen) THEN "crime"
    ELSE IF includes(toLowerCase(incidentType), KwAccidente) THEN "accident"
    ELSE IF includes(toLowerCase(incidentType), KwCongestion)
            \/ includes(toLowerCase(incidentType), KwTrafico) THEN "congestion"
    ELSE "danger"

\* updateHeatZone: "Determinar tipo de zona según el incidente"
ZoneTypeOf(incidentType) ==
    IF includes(toLowerCase(incidentType), KwAccidente) THEN "accident"
    ELSE IF includes(toLowerCase(incidentType), KwRobo)
            \/ includes(toLowerCase(incidentType), KwCrimen) THEN "crime"
    ELSE IF includes(toLowerCase(incidentType), KwCongestion)
            \/ includes(toLowerCase(incidentType), KwTrafico) THEN "congestion"
    ELSE "danger"

----------------------------------------------------------------------------
(* The heat_zones table and the statements of updateHeatZone *)

\* a numeric value stored in a DECIMAL(_, 8) column: rounded to 8 decimals,
\* half away from zero
RoundToScale(x) ==
    LET a == Abs(x)
        q == a \div StoreScale
        r == a % StoreScale
        m == IF 2 * r >= StoreScale THEN (q + 1) * StoreScale ELSE q * StoreScale
    IN  IF x < 0 THEN -m ELSE m

\* a weaker constraint: the upper limit is missing
IntensityCheck_NoUpper(i) == i >= 1

\* CHECK (intensity >= 1 AND intensity <= 10)
IntensityCheck(i) == i >= 1 /\ i <= 10

\* CHECK (zone_type IN (...))
ZoneTypeCheck(t) == t \in {"crime", "accident", "congestion", "danger"}

\* a lookup that takes half the distance for the distance
Within_Half(lat, lng, zlat, zlng) == 2 * Abs(lat - zlat) <= NearNanoDeg

\* 6371 * acos(...) <= 0.1, for two points of the one meridian
Within(lat, lng, zlat, zlng) == Abs(lat - zlat) <= NearNanoDeg

\* the ids of the rows the SELECT of updateHeatZone matches
NearbyZones(zs, zoneType, lat, lng) ==
    {id \in DOMAIN zs :
        /\ zs[id].zone_type = zoneType
        /\ Within(lat, lng, zs[id].latitude, zs[id].longitude)}

\* SELECT id, incident_count, intensity
SelectedRow(zs, id) ==
    [id |-> id, incident_count |-> zs[id].incident_count, intensity |-> zs[id].intensity]

\* the clamp is missing
NewIntensity_NoClamp(intensity) == intensity + 1

\* an intensity that goes up by two
NewIntensity_ByTwo(intensity) == Min(IntensityCap, intensity + 2)

\* const newIntensity = Math.min(10, zone.intensity + 1)
NewIntensity(intensity) == Min(IntensityCap, intensity + 1)

\* whether the UPDATE statement is accepted: the CHECK of intensity, and
\* incident_count + 1 within int4
UpdateAccepted(zs, id, newIntensity) ==
    /\ id \in DOMAIN zs
    /\ IntensityCheck(newIntensity)
    /\ zs[id].incident_count < PgIntMax

\* an UPDATE that leaves last_incident_at as it was
UpdatedZones_NoTimestamp(zs, id, newIntensity, t) ==
    [zs EXCEPT ![id] = [@ EXCEPT !.incident_count = @ + 1,
                                 !.intensity = newIntensity]]

\* an UPDATE that sets incident_count to 1, as the INSERT does
UpdatedZones_Recount(zs, id, newIntensity, t) ==
    [zs EXCEPT ![id] = [@ EXCEPT !.incident_count = 1,
                                 !.intensity = newIntensity,
                                 !.last_incident_at = t]]

\* an UPDATE whose WHERE names the type of the zone, not its id
UpdatedZones_AllOfType(zs, id, newIntensity, t) ==
    [z \in DOMAIN zs |->
        IF zs[z].zone_type = zs[id].zone_type
        THEN [zs[z] EXCEPT !.incident_count = @ + 1,
                           !.intensity = newIntensity,
                           !.last_incident_at = t]
        ELSE zs[z]]

\* UPDATE heat_zones SET incident_count = incident_count + 1, intensity = $1,
\* last_incident_at = CURRENT_TIMESTAMP WHERE id = $2
UpdatedZones(zs, id, newIntensity, t) ==
    [zs EXCEPT ![id] = [@ EXCEPT !.incident_count = @ + 1,
                                 !.intensity = newIntensity,
                                 !.last_incident_at = t]]

\* a row whose coordinates keep 5 decimals
InsertedRow_Coarse(lat, lng, zoneType, t) ==
    [latitude |-> (lat \div 1000) * 1000, longitude |-> (lng \div 1000) * 1000,
     zone_type |-> zoneType, intensity |-> 1, incident_count |-> 1,
     last_incident_at |-> t]

\* the row INSERT INTO heat_zones (uuid, latitude, longitude, zone_type,
\* intensity) VALUES ($1, $2, $3, $4, 1) stores, with the defaults of the table
InsertedRow(lat, lng, zoneType, t) ==
    [latitude |-> RoundToScale(lat), longitude |-> RoundToScale(lng),
     zone_type |-> zoneType, intensity |-> 1, incident_count |-> 1,
     last_incident_at |-> t]

\* an insert that does nothing when a zone of the type is near: an upsert
InsertedZones_Upsert(zs, lat, lng, zoneType, t) ==
    IF NearbyZones(zs, zoneType, lat, lng) = {}
    THEN Append(zs, InsertedRow(lat, lng, zoneType, t))
    ELSE zs

\* an insert that first deletes the zones of the type
InsertedZones_Replace(zs, lat, lng, zoneType, t) ==
    LET Other(z) == z.zone_type # zoneType
    IN  Append(SelectSeq(zs, Other), InsertedRow(lat, lng, zoneType, t))

\* the table after the INSERT
InsertedZones(zs, lat, lng, zoneType, t) ==
    Append(zs, InsertedRow(lat, lng, zoneType, t))

----------------------------------------------------------------------------
(* The state *)

VARIABLES
    zones,       \* the heat_zones table: row id |-> row (ids are SERIAL)
    reports,     \* the reports table: row id |-> row
    now,         \* CURRENT_TIMESTAMP of the last write to heat_zones
    started,     \* the number of requests received so far
    client,      \* the request the client of SpecSeq repeats
    pc,          \* per request slot: where the request is
    req,         \* per request slot: the HTTP request
    zoneType,    \* per request slot: the local zoneType of updateHeatZone
    rows,        \* per request slot: existingZone.rows
    status,      \* per request slot: the HTTP status answered last, 0 before
    calls,       \* per request slot: the invocations of updateHeatZone
    reportId,    \* per request slot: the id of the report inserted, 0 if none
    zoneWrites,  \* per request slot: the executed writes to heat_zones
    storeError,  \* per request slot: a query of updateHeatZone has thrown
    helpPoints,  \* the help_points table: row id |-> row
    spc,         \* the scoring request: where it is
    sreq,        \* the scoring request: its endpoint and parameters
    srows,       \* the scoring request: the rows of its heat_zones query
    sres,        \* the scoring request: the response sent last
    sfailed,     \* the scoring request: a query of it has thrown
    users,       \* the users table: row id |-> row
    alerts,      \* the alerts table: row id |-> row
    apc,         \* the request with a token: where it is
    areq,        \* the request with a token: the HTTP request
    ares         \* the request with a token: the response sent last

vars == <<zones, reports, now, started, client, pc, req, zoneType, rows, status,
          calls, reportId, zoneWrites, storeError,
          helpPoints, spc, sreq, srows, sres, sfailed,
          users, alerts, apc, areq, ares>>

\* what POST /api/reports reads and writes
reporting == <<zones, reports, now, started, client, pc, req, zoneType, rows, status,
               calls, reportId, zoneWrites, storeError>>

\* what the scoring endpoints and the help-point endpoints read and write,
\* heat_zones apart
scoring == <<helpPoints, spc, sreq, srows, sres, sfailed>>

\* the requests to POST /api/reports in progress
posting == <<now, started, client, pc, req, zoneType, rows, status, calls, reportId,
             zoneWrites, storeError>>

\* what the endpoints of the accounts and of the authorities read and write,
\* reports and help_points apart
accounts == <<users, alerts, apc, areq, ares>>

\* passwords: one of seven characters and one of five
Secreto == <<"s", "e", "c", "r", "e", "t", "o">>
Corto == <<"c", "o", "r", "t", "o">>

\* CHECK (user_type IN ('citizen', 'authority', 'admin'))
UserTypeCheck(t) == t \in {"citizen", "authority", "admin"}

\* bcrypt.hash: the stored password is not the password
Hash(password) == <<"bcrypt", password>>

\* bcrypt.compare
Compare(password, hashed) == hashed = Hash(password)

\* accounts set up outside the API: a citizen, an authority, an administrator
\* and an authority whose account has been deactivated; "via" records how the
\* row came into the table
SeedUsers ==
    << [full_name |-> "Ana", email |-> "ana@x.pe", password |-> Hash(Secreto),
        user_type |-> "citizen", is_active |-> TRUE, via |-> "outside"],
       [full_name |-> "Beto", email |-> "beto@x.pe", password |-> Hash(Secreto),
        user_type |-> "authority", is_active |-> TRUE, via |-> "outside"],
       [full_name |-> "Caro", email |-> "caro@x.pe", password |-> Hash(Secreto),
        user_type |-> "admin", is_active |-> TRUE, via |-> "outside"],
       [full_name |-> "Dani", email |-> "dani@x.pe", password |-> Hash(Secreto),
        user_type |-> "authority", is_active |-> FALSE, via |-> "outside"] >>

\* no Authorization header, or one that does not start with "Bearer "
NoToken == [kind |-> "none", user |-> 0]

\* the middleware called next()
Passed == [status |-> 0, message |-> "next"]

\* a verifyToken that does not look at is_active
verifyToken_NoActive(us, token, ok) ==
    IF token.kind = "none"
    THEN [status |-> 401, message |-> "Token de acceso requerido"]
    ELSE IF token.kind = "expired"
    THEN [status |-> 401, message |-> "Token expirado"]
    ELSE IF token.kind = "invalid"
    THEN [status |-> 401, message |-> "Token invalido"]
    ELSE IF ~ok
    THEN [status |-> 500, message |-> "Error de autenticacion"]
    ELSE IF token.user \notin DOMAIN us
    THEN [status |-> 401, message |-> "Usuario no encontrado"]
    ELSE Passed

\* the middleware verifyToken: the response it sends, or Passed.  The header
\* is missing ("none"), holds a token jwt.verify rejects ("invalid":
\* JsonWebTokenError, "expired": TokenExpiredError) or a token of the server
\* ("valid") for the user of that id; ok: the query of the users table succeeds
verifyToken(us, token, ok) ==
    IF token.kind = "none"
    THEN [status |-> 401, message |-> "Token de acceso requerido"]
    ELSE IF token.kind = "expired"
    THEN [status |-> 401, message |-> "Token expirado"]
    ELSE IF token.kind = "invalid"
    THEN [status |-> 401, message |-> "Token invalido"]
    ELSE IF ~ok
    THEN [status |-> 500, message |-> "Error de autenticacion"]
    ELSE IF token.user \notin DOMAIN us
    THEN [status |-> 401, message |-> "Usuario no encontrado"]
    ELSE IF ~us[token.user].is_active
    THEN [status |-> 401, message |-> "Cuenta desactivada"]
    ELSE Passed

\* a check that lets every user pass
isAuthority_Open(user) == Passed

\* the middleware isAuthority, on req.user
isAuthority(user) ==
    IF user.user_type # "authority" /\ user.user_type # "admin"
    THEN [status |-> 403, message |-> "Acceso denegado. Se requiere rol de autoridad"]
    ELSE Passed

\* the middleware isAdmin, on req.user
isAdmin(user) ==
    IF user.user_type # "admin"
    THEN [status |-> 403,
          message |-> "Acceso denegado. Se requiere rol de administrador"]
    ELSE Passed

\* the Authorization header of a request to POST /api/reports
TokenOf(r) ==
    IF r.authorization = "none" THEN NoToken ELSE [kind |-> "valid", user |-> r.user]

NoRequest ==
    [authorization |-> "none", incidentType |-> <<>>, latitude |-> 0, longitude |-> Lng,
     user |-> 0, isAnonymous |-> "undefined"]

\* the requests of a client with a token of the first user, for a set of labels
Authorized(labels) ==
    [authorization : {"bearer"}, incidentType : labels, latitude : Lats,
     longitude : {Lng}, user : {1}, isAnonymous : {"undefined"}]

\* the requests that arrive in Spec and SpecSerial: a robbery at each latitude,
\* an accident, a request without a label, a request without a token
Requests ==
    Authorized({LabelRobo})
    \cup {[authorization |-> "bearer", incidentType |-> LabelAccidente,
            latitude |-> 0, longitude |-> Lng, user |-> 1, isAnonymous |-> "undefined"],
           [authorization |-> "bearer", incidentType |-> LabelBlank,
            latitude |-> 0, longitude |-> Lng, user |-> 1, isAnonymous |-> "undefined"],
           [authorization |-> "none", incidentType |-> LabelRobo,
            latitude |-> 0, longitude |-> Lng, user |-> 0, isAnonymous |-> "undefined"]}

\* rows like those of seed.sql; the second one has counted up to the last int4
SeedZones ==
    << [latitude |-> 0, longitude |-> Lng, zone_type |-> "crime", intensity |-> 9,
        incident_count |-> 15, last_incident_at |-> 0],
       [latitude |-> 0, longitude |-> Lng, zone_type |-> "accident", intensity |-> 10,
        incident_count |-> PgIntMax, last_incident_at |-> 0] >>

\* a row the table refuses
RefusedZones ==
    << [latitude |-> 0, longitude |-> Lng, zone_type |-> "crime", intensity |-> 11,
        incident_count |-> 15, last_incident_at |-> 0] >>

\* the tables a server can start on: what the constraints of heat_zones admit
InitialZones ==
    {zs \in {<<>>, SeedZones, RefusedZones} :
        \A id \in DOMAIN zs :
            IntensityCheck(zs[id].intensity) /\ ZoneTypeCheck(zs[id].zone_type)}

InitSlots ==
    /\ pc = [p \in Procs |-> "idle"]
    /\ req = [p \in Procs |-> NoRequest]
    /\ zoneType = [p \in Procs |-> "danger"]
    /\ rows = [p \in Procs |-> <<>>]
    /\ status = [p \in Procs |-> 0]
    /\ calls = [p \in Procs |-> 0]
    /\ reportId = [p \in Procs |-> 0]
    /\ zoneWrites = [p \in Procs |-> 0]
    /\ storeError = [p \in Procs |-> FALSE]

\* the help_points table a server starts on: HelpRows rows like those of
\* seed.sql; the first HelpLimit + 2 are 1500000 nanodegrees apart, the others
\* far away; the first has been deactivated
HelpTable ==
    [i \in 1..HelpRows |->
        [latitude |-> IF i > HelpLimit + 2 THEN 30000000 + i * 1500000 ELSE i * 1500000,
         longitude |-> Lng, is_active |-> i > 1]]

\* no scoring request yet
NoScoreRequest == [endpoint |-> "none"]

NoResponse == [status |-> 0]

InitScoring ==
    /\ helpPoints = HelpTable
    /\ spc = "idle"
    /\ sreq = NoScoreRequest
    /\ srows = <<>>
    /\ sres = NoResponse
    /\ sfailed = FALSE

\* no request with a token yet
NoAccountRequest == [endpoint |-> "none"]

InitAccounts ==
    /\ users = SeedUsers
    /\ alerts = <<>>
    /\ apc = "idle"
    /\ areq = NoAccountRequest
    /\ ares = NoResponse

Init ==
    /\ zones \in InitialZones
    /\ reports = <<>>
    /\ now = 0
    /\ started = 0
    /\ client = NoRequest
    /\ InitSlots
    /\ InitScoring
    /\ InitAccounts

InitSeq ==
    /\ zones = <<>>
    /\ reports = <<>>
    /\ now = 0
    /\ started = 0
    /\ client \in Authorized(SeqLabels)
    /\ InitSlots
    /\ InitScoring
    /\ InitAccounts

----------------------------------------------------------------------------
(* POST /api/reports *)

\* the request ends with an answer; its request object, its locals and what
\* was recorded of it are gone
Answer(p, code) ==
    /\ pc' = [pc EXCEPT ![p] = "done"]
    /\ status' = [status EXCEPT ![p] = code]
    /\ req' = [req EXCEPT ![p] = NoRequest]
    /\ zoneType' = [zoneType EXCEPT ![p] = "danger"]
    /\ rows' = [rows EXCEPT ![p] = <<>>]
    /\ calls' = [calls EXCEPT ![p] = 0]
    /\ reportId' = [reportId EXCEPT ![p] = 0]
    /\ zoneWrites' = [zoneWrites EXCEPT ![p] = 0]
    /\ storeError' = [storeError EXCEPT ![p] = FALSE]

\* a request r arrives in slot p and goes through the middleware verifyToken;
\* ok: the query of the users table succeeds
VerifyToken(p, r, ok) ==
    /\ pc[p] \in {"idle", "done"}
    /\ started' = started + 1
    /\ IF verifyToken(users, TokenOf(r), ok) # Passed
       THEN Answer(p, verifyToken(users, TokenOf(r), ok).status)
       ELSE /\ pc' = [pc EXCEPT ![p] = "handler"]
            /\ req' = [req EXCEPT ![p] = r]
            /\ status' = [status EXCEPT ![p] = 0]
            /\ UNCHANGED <<zoneType, rows, calls, reportId, zoneWrites, storeError>>
    /\ UNCHANGED <<zones, reports, now, client>>
    /\ UNCHANGED <<scoring, accounts>>

\* a request takes the first free slot
FirstFree(p) ==
    /\ pc[p] \in {"idle", "done"}
    /\ \A q \in Procs : q < p => pc[q] \notin {"idle", "done"}

Arrive(p) ==
    /\ started < MaxRequests
    /\ FirstFree(p)
    /\ \E r \in Requests, ok \in BOOLEAN : VerifyToken(p, r, ok)

\* reportValidation: incidentType trimmed and not empty (the modelled
\* coordinates are numbers within the ranges)
ValidationErrors(r) == trim(r.incidentType) = <<>>

\* "isAnonymous = false" of the handler: the default stands in for a field
\* that is missing, not for a null; a BOOLEAN column holds "true", "false" or
\* "NULL"
StoredAnonymous(isAnonymous) ==
    IF isAnonymous = "undefined" THEN "false"
    ELSE IF isAnonymous = "null" THEN "NULL"
    ELSE isAnonymous

\* the row INSERT INTO reports stores; the user is req.user.id
ReportRow(r) ==
    [incident_type |-> trim(r.incidentType), latitude |-> RoundToScale(r.latitude),
     longitude |-> RoundToScale(r.longitude), status |-> "pending",
     user_id |-> r.user, is_anonymous |-> StoredAnonymous(r.isAnonymous),
     views_count |-> 0]

\* a handler that goes on to updateHeatZone after it has seen the errors of
\* the validation or the failure of its INSERT
CreateReport_NoReturn(p, ok) ==
    /\ pc[p] = "handler"
    /\ IF ValidationErrors(req[p]) \/ ~ok
       THEN UNCHANGED reports
       ELSE reports' = Append(reports, ReportRow(req[p]))
    /\ reportId' = [reportId EXCEPT ![p] = Len(reports')]
    /\ pc' = [pc EXCEPT ![p] = "updateHeatZone"]
    /\ UNCHANGED <<status, req, zoneType, rows, calls, zoneWrites, storeError>>
    /\ UNCHANGED <<zones, now, started, client>>
    /\ UNCHANGED <<scoring, accounts>>

\* the handler up to its INSERT INTO reports; ok: the INSERT succeeds
CreateReport(p, ok) ==
    /\ pc[p] = "handler"
    /\ IF ValidationErrors(req[p])
       THEN Answer(p, 400) /\ UNCHANGED reports
       ELSE IF ~ok
       THEN Answer(p, 500) /\ UNCHANGED reports
       ELSE /\ reports' = Append(reports, ReportRow(req[p]))
            /\ reportId' = [reportId EXCEPT ![p] = Len(reports) + 1]
            /\ pc' = [pc EXCEPT ![p] = "updateHeatZone"]
            /\ UNCHANGED <<status, req, zoneType, rows, calls, zoneWrites,
                           storeError>>
    /\ UNCHANGED <<zones, now, started, client>>
    /\ UNCHANGED <<scoring, accounts>>

\* an error thrown inside updateHeatZone goes on to the handler: it is not
\* caught
Catch_Rethrow(p) ==
    /\ storeError' = [storeError EXCEPT ![p] = TRUE]
    /\ pc' = [pc EXCEPT ![p] = "done"]
    /\ status' = [status EXCEPT ![p] = 500]

\* the catch of updateHeatZone: the error is logged, the function returns
Catch(p) ==
    /\ storeError' = [storeError EXCEPT ![p] = TRUE]
    /\ pc' = [pc EXCEPT ![p] = "respond"]
    /\ UNCHANGED status

\* the members of a set of ids, ascending
RECURSIVE Ascending(_)
Ascending(S) ==
    IF S = {} THEN <<>>
    ELSE LET m == CHOOSE x \in S : \A y \in S : x <= y
         IN  <<m>> \o Ascending(S \ {m})

\* the rows of a SELECT that matches the ids m, with the row of first ahead
ResultRows(zs, m, first) ==
    [i \in 1..Cardinality(m) |->
        SelectedRow(zs, (<<first>> \o Ascending(m \ {first}))[i])]

\* updateHeatZone up to its SELECT; ok: the SELECT succeeds.  The order of the
\* rows is the store's: any matching row can come first.
LookupZone(p, ok) ==
    /\ pc[p] = "updateHeatZone"
    /\ calls' = [calls EXCEPT ![p] = @ + 1]
    /\ LET zt == ZoneTypeOf(trim(req[p].incidentType))
           m == NearbyZones(zones, zt, req[p].latitude, req[p].longitude)
       IN  /\ zoneType' = [zoneType EXCEPT ![p] = zt]
           /\ IF ~ok
              THEN Catch(p) /\ UNCHANGED rows
              ELSE /\ pc' = [pc EXCEPT ![p] = "write"]
                   /\ UNCHANGED <<status, storeError>>
                   /\ IF m = {} THEN rows' = [rows EXCEPT ![p] = <<>>]
                      ELSE \E first \in m :
                             rows' = [rows EXCEPT ![p] = ResultRows(zones, m, first)]
    /\ UNCHANGED <<zones, reports, now, started, client, req, reportId, zoneWrites>>
    /\ UNCHANGED <<scoring, accounts>>

\* an update that writes the incident_count it has read, plus one
UpdateZone_FromRead(p, ok, t) ==
    /\ pc[p] = "write"
    /\ Len(rows[p]) > 0
    /\ t >= now
    /\ now' = t
    /\ LET zone == rows[p][1]
           newIntensity == NewIntensity(zone.intensity)
       IN  IF ok /\ UpdateAccepted(zones, zone.id, newIntensity)
           THEN /\ zones' = [zones EXCEPT ![zone.id] =
                                [@ EXCEPT !.incident_count = zone.incident_count + 1,
                                          !.intensity = newIntensity,
                                          !.last_incident_at = t]]
                /\ zoneWrites' = [zoneWrites EXCEPT ![p] = @ + 1]
                /\ pc' = [pc EXCEPT ![p] = "respond"]
                /\ UNCHANGED <<status, storeError>>
           ELSE Catch(p) /\ UNCHANGED <<zones, zoneWrites>>
    /\ UNCHANGED <<reports, started, client, req, zoneType, rows, calls, reportId>>
    /\ UNCHANGED <<scoring, accounts>>

\* "Actualizar zona existente"; ok: the UPDATE is not failed by the store;
\* t: CURRENT_TIMESTAMP, which never goes back
UpdateZone(p, ok, t) ==
    /\ pc[p] = "write"
    /\ Len(rows[p]) > 0
    /\ t >= now
    /\ now' = t
    /\ LET zone == rows[p][1]
           newIntensity == NewIntensity(zone.intensity)
       IN  IF ok /\ UpdateAccepted(zones, zone.id, newIntensity)
           THEN /\ zones' = UpdatedZones(zones, zone.id, newIntensity, t)
                /\ zoneWrites' = [zoneWrites EXCEPT ![p] = @ + 1]
                /\ pc' = [pc EXCEPT ![p] = "respond"]
                /\ UNCHANGED <<status, storeError>>
           ELSE Catch(p) /\ UNCHANGED <<zones, zoneWrites>>
    /\ UNCHANGED <<reports, started, client, req, zoneType, rows, calls, reportId>>
    /\ UNCHANGED <<scoring, accounts>>

\* whether the INSERT statement is accepted: the CHECKs of the new row
InsertAccepted(row) == ZoneTypeCheck(row.zone_type) /\ IntensityCheck(row.intensity)

\* "Crear nueva zona"; ok: the INSERT is not failed by the store;
\* t: CURRENT_TIMESTAMP, which never goes back
InsertZone(p, ok, t) ==
    /\ pc[p] = "write"
    /\ Len(rows[p]) = 0
    /\ t >= now
    /\ now' = t
    /\ IF ok /\ InsertAccepted(InsertedRow(req[p].latitude, req[p].longitude,
                                           zoneType[p], t))
       THEN /\ zones' = InsertedZones(zones, req[p].latitude, req[p].longitude,
                                      zoneType[p], t)
            /\ zoneWrites' = [zoneWrites EXCEPT ![p] = @ + 1]
            /\ pc' = [pc EXCEPT ![p] = "respond"]
            /\ UNCHANGED <<status, storeError>>
       ELSE Catch(p) /\ UNCHANGED <<zones, zoneWrites>>
    /\ UNCHANGED <<reports, started, client, req, zoneType, rows, calls, reportId>>
    /\ UNCHANGED <<scoring, accounts>>

\* updateHeatZone has returned: res.status(201).json(...)
Respond(p) ==
    /\ pc[p] = "respond"
    /\ Answer(p, 201)
    /\ UNCHANGED <<zones, reports, now, started, client>>
    /\ UNCHANGED <<scoring, accounts>>

Times == 0..MaxTime

----------------------------------------------------------------------------
(* Specifications *)

\* requests overlap, and any query can fail
Next ==
    \E p \in Procs :
        \/ Arrive(p)
        \/ \E ok \in BOOLEAN : CreateReport(p, ok)
        \/ \E ok \in BOOLEAN : LookupZone(p, ok)
        \/ \E ok \in BOOLEAN, t \in Times : UpdateZone(p, ok, t)
        \/ \E ok \in BOOLEAN, t \in Times : InsertZone(p, ok, t)
        \/ Respond(p)

Spec == Init /\ [][Next]_vars

\* a request arrives only when no other is in progress
ArriveSerial(p) ==
    /\ started < MaxSerialRequests
    /\ \A q \in Procs : pc[q] \in {"idle", "done"}
    /\ FirstFree(p)
    /\ \E r \in Requests, ok \in BOOLEAN : VerifyToken(p, r, ok)

NextSerial ==
    \E p \in Procs :
        \/ ArriveSerial(p)
        \/ \E ok \in BOOLEAN : CreateReport(p, ok)
        \/ \E ok \in BOOLEAN : LookupZone(p, ok)
        \/ \E ok \in BOOLEAN, t \in Times : UpdateZone(p, ok, t)
        \/ \E ok \in BOOLEAN, t \in Times : InsertZone(p, ok, t)
        \/ Respond(p)

SpecSerial == Init /\ [][NextSerial]_vars

\* one client repeats one authorized request, each after the answer to the one
\* before; no query fails; the table starts empty
ArriveSeq ==
    /\ started < MaxSeqIncidents
    /\ VerifyToken(1, client, TRUE)

NextSeq ==
    \/ ArriveSeq
    \/ CreateReport(1, TRUE)
    \/ LookupZone(1, TRUE)
    \/ \E t \in Times : UpdateZone(1, TRUE, t)
    \/ \E t \in Times : InsertZone(1, TRUE, t)
    \/ Respond(1)

SpecSeq == InitSeq /\ [][NextSeq]_vars

\* a table set up outside the API: one crime zone in the middle of the range
RaceZones ==
    << [latitude |-> 0, longitude |-> Lng, zone_type |-> "crime", intensity |-> 5,
        incident_count |-> 2, last_incident_at |-> 0] >>

\* robberies at the zone of RaceZones and 0.1 km to the south of it
RaceRequests ==
    [authorization : {"bearer"}, incidentType : {LabelRobo}, latitude : {0, -899324},
     longitude : {Lng}, user : {1}, isAnonymous : {"undefined"}]

InitRace ==
    /\ zones = RaceZones
    /\ reports = <<>>
    /\ now = 0
    /\ started = 0
    /\ client = NoRequest
    /\ InitSlots
    /\ InitScoring
    /\ InitAccounts

ArriveRace(p) ==
    /\ started < MaxRaceRequests
    /\ FirstFree(p)
    /\ \E r \in RaceRequests : VerifyToken(p, r, TRUE)

\* requests for two points overlap, a slow one with several quick ones, all
\* within one reading of the clock; the writes of updateHeatZone can fail
NextRace ==
    \E p \in Procs :
        \/ ArriveRace(p)
        \/ CreateReport(p, TRUE)
        \/ LookupZone(p, TRUE)
        \/ \E ok \in BOOLEAN : UpdateZone(p, ok, now)
        \/ \E ok \in BOOLEAN : InsertZone(p, ok, now)
        \/ Respond(p)

SpecRace == InitRace /\ [][NextRace]_vars

----------------------------------------------------------------------------
(* GET /api/stats/safety-score and POST /api/routes/calculate *)

Max(a, b) == IF a >= b THEN a ELSE b

\* 6371 * acos(...) <= km, for two points of the one meridian
WithinKm(lat, zlat, km) == Abs(lat - zlat) <= km * KmNanoDeg

\* the ids of the rows the heat_zones query of the safety-score matches
ZonesInRadius(zs, lat, radius) ==
    {id \in DOMAIN zs : WithinKm(lat, zs[id].latitude, radius)}

\* the ids of the rows the heat_zones query of the route matches: one SELECT,
\* its two distances joined by OR
ZonesInRoute(zs, originLat, destinationLat) ==
    {id \in DOMAIN zs :
        \/ WithinKm(originLat, zs[id].latitude, RouteZoneKm)
        \/ WithinKm(destinationLat, zs[id].latitude, RouteZoneKm)}

\* SELECT zone_type, intensity, incident_count
ScoredRow(zs, id) ==
    [zone_type |-> zs[id].zone_type, intensity |-> zs[id].intensity,
     incident_count |-> zs[id].incident_count]

\* the rows of a SELECT that matches the ids m, with the row of first ahead
ScoredRows(zs, m, first) ==
    [i \in 1..Cardinality(m) |->
        ScoredRow(zs, (<<first>> \o Ascending(m \ {first}))[i])]

\* the rows of the safety-score
RadiusRows(zs, lat, radius, first) ==
    IF ZonesInRadius(zs, lat, radius) = {} THEN <<>>
    ELSE ScoredRows(zs, ZonesInRadius(zs, lat, radius), first)

\* one SELECT for each end of the route, the rows of the two put together
RouteRows_TwoQueries(zs, originLat, destinationLat, first) ==
    RadiusRows(zs, originLat, RouteZoneKm, first)
        \o [i \in 1..Cardinality(ZonesInRadius(zs, destinationLat, RouteZoneKm)) |->
              ScoredRow(zs, Ascending(ZonesInRadius(zs, destinationLat, RouteZoneKm))[i])]

\* heatZonesInRoute.rows
RouteRows(zs, originLat, destinationLat, first) ==
    IF ZonesInRoute(zs, originLat, destinationLat) = {} THEN <<>>
    ELSE ScoredRows(zs, ZonesInRoute(zs, originLat, destinationLat), first)

\* the rows that can come first
Firsts(m) == IF m = {} THEN {0} ELSE m

\* safety-score: zonesResult.rows.forEach(zone => safetyScore -= ...)
RECURSIVE SafetyPenalised(_, _)
SafetyPenalised(score, rs) ==
    IF rs = <<>> THEN score
    ELSE SafetyPenalised(score - Head(rs).intensity * PenaltyFactor, Tail(rs))

\* a score that is not clamped from below
SafetyScore_NoFloor(rs) == Min(FullScore, SafetyPenalised(FullScore, rs))

\* safety-score: safetyScore = Math.max(0, Math.min(100, safetyScore))
SafetyScore(rs) == Max(0, Min(FullScore, SafetyPenalised(FullScore, rs)))

\* a level whose first threshold is exclusive
SafetyLevel_Exclusive(score) ==
    IF score > HighFrom THEN "high" ELSE IF score >= MediumFrom THEN "medium" ELSE "low"

\* safety-score: safetyScore >= 80 ? 'high' : safetyScore >= 50 ? 'medium' : 'low'
SafetyLevel(score) ==
    IF score >= HighFrom THEN "high" ELSE IF score >= MediumFrom THEN "medium" ELSE "low"

\* a count of the crime zones that takes the danger zones too
CountOfType_WithDanger(rs, t) ==
    Cardinality({i \in DOMAIN rs : rs[i].zone_type \in {t, "danger"}})

\* safety-score: if (zone.zone_type === t) count++
CountOfType(rs, t) == Cardinality({i \in DOMAIN rs : rs[i].zone_type = t})

\* route: heatZonesInRoute.rows.forEach(zone => safetyScore -= ...)
RECURSIVE RoutePenalised(_, _)
RoutePenalised(score, rs) ==
    IF rs = <<>> THEN score
    ELSE RoutePenalised(score - Head(rs).intensity * PenaltyFactor, Tail(rs))

\* a route score that is not clamped from below
RouteScore_NoFloor(rs) == Min(FullScore, RoutePenalised(FullScore, rs))

\* route: safetyScore = Math.max(0, Math.min(100, safetyScore))
RouteScore(rs) == Max(0, Min(FullScore, RoutePenalised(FullScore, rs)))

\* route: safetyScore >= 80 ? 'high' : safetyScore >= 50 ? 'medium' : 'low'
RouteLevel(score) ==
    IF score >= HighFrom THEN "high" ELSE IF score >= MediumFrom THEN "medium" ELSE "low"

\* a distance that keeps the sign of the difference of the latitudes
DistanceMetres_Signed(originLat, destinationLat) ==
    ((destinationLat - originLat) * 10) \div (KmNanoDeg \div 100)

\* route: const distance = R * c, in metres, rounded down; on the meridian
\* a is the square of sin(dLat / 2), and c the size of the difference of the
\* latitudes in radians
DistanceMetres(originLat, destinationLat) ==
    (Abs(destinationLat - originLat) * 10) \div (KmNanoDeg \div 100)

\* Math.round(x / y) for x >= 0 and y > 0: a half goes up
RoundDiv(x, y) == (2 * x + y) \div (2 * y)

\* route: distance.toFixed(2), in hundredths of a km
DistanceKm(metres) == RoundDiv(metres, 10)

\* a time taken from the distance of the response, which has 2 decimals
EstimatedTime_FromRounded(metres) == RoundDiv(DistanceKm(metres) * 10 * 60, SpeedKmh * 1000)

\* a time of one minute at least
EstimatedTime_AtLeastOne(metres) == Max(1, RoundDiv(metres * 60, SpeedKmh * 1000))

\* route: Math.round((distance / 30) * 60)
EstimatedTime(metres) == RoundDiv(metres * 60, SpeedKmh * 1000)

\* safety-score: SELECT COUNT(*) FROM help_points WHERE is_active = true AND
\* distance <= $3
HelpCount(hs, lat, radius) ==
    Cardinality({id \in DOMAIN hs :
                    hs[id].is_active /\ WithinKm(lat, hs[id].latitude, radius)})

\* a query of the help points that leaves is_active out
HelpInRoute_AnyStatus(hs, originLat, destinationLat) ==
    {id \in DOMAIN hs :
        \/ WithinKm(originLat, hs[id].latitude, HelpKm)
        \/ WithinKm(destinationLat, hs[id].latitude, HelpKm)}

\* the ids of the rows the help_points query of the route matches
HelpInRoute(hs, originLat, destinationLat) ==
    {id \in DOMAIN hs :
        /\ hs[id].is_active
        /\ \/ WithinKm(originLat, hs[id].latitude, HelpKm)
           \/ WithinKm(destinationLat, hs[id].latitude, HelpKm)}

\* LIMIT n: the sets of rows the store can return of the matching rows m
Limited(m, n) == {c \in SUBSET m : Cardinality(c) = Min(n, Cardinality(m))}

\* helpPointsNearby.rows.map(hp => ...): uuid is the row's identity
HelpEntries(hs, c) ==
    [i \in 1..Cardinality(c) |->
        [uuid |-> Ascending(c)[i], latitude |-> hs[Ascending(c)[i]].latitude,
         longitude |-> hs[Ascending(c)[i]].longitude]]

\* requests to GET /api/stats/safety-score: given are the parameters of the
\* query string; the radius, when given, is 2
SafetyRequests ==
    [endpoint : {"safety-score"},
     given : {{"lat", "lng"}, {"lat", "lng", "radius"}, {"lat"}, {"lng"}},
     lat : {0}, lng : {Lng}, radius : {2}]

\* the fields of the body the validation of the route looks at
RouteFields == {"originLat", "originLng", "destinationLat", "destinationLng"}

\* requests to POST /api/routes/calculate: given are the fields of the body
\* that hold a number; the ends are the same point, about 250 m apart or
\* about 1056 m apart
CalculateRequests ==
    {r \in [endpoint : {"calculate"}, given : {RouteFields, {"originLat", "originLng"}},
            originLat : {0, 9500000}, originLng : {Lng},
            destinationLat : {0, 2244000, 9500000}, destinationLng : {Lng}] :
        /\ r.originLat <= r.destinationLat \/ r.destinationLat = 0
        /\ r.given # RouteFields => r.destinationLat = 0}

\* rows of heat_zones like those of seed.sql, around the ends of the routes
ScoreZones ==
    << [latitude |-> -9000000, longitude |-> Lng, zone_type |-> "crime",
        intensity |-> 10, incident_count |-> 15, last_incident_at |-> 0],
       [latitude |-> 5000000, longitude |-> Lng, zone_type |-> "accident",
        intensity |-> 1, incident_count |-> 1, last_incident_at |-> 0],
       [latitude |-> 6000000, longitude |-> Lng, zone_type |-> "congestion",
        intensity |-> 5, incident_count |-> 12, last_incident_at |-> 0],
       [latitude |-> 7000000, longitude |-> Lng, zone_type |-> "danger",
        intensity |-> 9, incident_count |-> 10, last_incident_at |-> 0],
       [latitude |-> 20000000, longitude |-> Lng, zone_type |-> "crime",
        intensity |-> 1, incident_count |-> 6, last_incident_at |-> 0],
       [latitude |-> 100000000, longitude |-> Lng, zone_type |-> "accident",
        intensity |-> 10, incident_count |-> 20, last_incident_at |-> 0],
       [latitude |-> -8500000, longitude |-> Lng, zone_type |-> "crime",
        intensity |-> 10, incident_count |-> 9, last_incident_at |-> 0],
       [latitude |-> 21000000, longitude |-> Lng, zone_type |-> "accident",
        intensity |-> 10, incident_count |-> 8, last_incident_at |-> 0],
       [latitude |-> 4000000, longitude |-> Lng, zone_type |-> "danger",
        intensity |-> 10, incident_count |-> 5, last_incident_at |-> 0],
       [latitude |-> 3000000, longitude |-> Lng, zone_type |-> "crime",
        intensity |-> 10, incident_count |-> 30, last_incident_at |-> 0] >>

\* the heat_zones tables of SpecScore: the first rows of ScoreZones
ScoreTables == {SubSeq(ScoreZones, 1, n) : n \in {0, 1, 2, 4, 5, Len(ScoreZones)}}

InitScore ==
    /\ zones \in ScoreTables
    /\ reports = <<>>
    /\ now = 0
    /\ started = 0
    /\ client = NoRequest
    /\ InitSlots
    /\ InitScoring
    /\ InitAccounts

\* a scoring request r is received
ScoringReceived(r) ==
    /\ spc \in {"idle", "done"}
    /\ sreq' = r
    /\ srows' = <<>>
    /\ sfailed' = FALSE
    /\ UNCHANGED helpPoints
    /\ UNCHANGED <<reporting, accounts>>

\* safety-score: const { lat, lng, radius = 5 } = req.query, and the 400
SafetyScoreReceive(r) ==
    /\ ScoringReceived(r)
    /\ IF "lat" \notin r.given \/ "lng" \notin r.given
       THEN sres' = [status |-> 400, success |-> FALSE] /\ spc' = "done"
       ELSE sres' = NoResponse /\ spc' = "zones"

\* safety-score: parseFloat(radius), in km
RadiusOf(r) == IF "radius" \in r.given THEN r.radius ELSE DefaultRadiusKm

\* a catch that answers with the score of a place without zones
SafetyCatch_Default ==
    /\ sfailed' = TRUE
    /\ sres' = [status |-> 200, success |-> TRUE, safetyScore |-> FullScore,
                safetyLevel |-> "high"]
    /\ spc' = "done"

\* safety-score: catch (error)
SafetyCatch ==
    /\ sfailed' = TRUE
    /\ sres' = [status |-> 500, success |-> FALSE]
    /\ spc' = "done"

\* safety-score: the heat_zones query; ok: the query succeeds
SafetyScoreZones(ok) ==
    /\ spc = "zones"
    /\ sreq.endpoint = "safety-score"
    /\ IF ~ok THEN SafetyCatch /\ UNCHANGED srows
       ELSE /\ \E first \in Firsts(ZonesInRadius(zones, sreq.lat, RadiusOf(sreq))) :
                 srows' = RadiusRows(zones, sreq.lat, RadiusOf(sreq), first)
            /\ spc' = "help"
            /\ UNCHANGED <<sres, sfailed>>
    /\ UNCHANGED <<helpPoints, sreq>>
    /\ UNCHANGED <<reporting, accounts>>

\* safety-score: the help_points query and res.json; ok: the query succeeds
SafetyScoreRespond(ok) ==
    /\ spc = "help"
    /\ sreq.endpoint = "safety-score"
    /\ IF ~ok THEN SafetyCatch
       ELSE /\ sres' = [status |-> 200, success |-> TRUE,
                        safetyScore |-> SafetyScore(srows),
                        safetyLevel |-> SafetyLevel(SafetyScore(srows)),
                        dangerZones |-> Len(srows),
                        crimeZones |-> CountOfType(srows, "crime"),
                        accidentZones |-> CountOfType(srows, "accident"),
                        helpPointsNearby |->
                            HelpCount(helpPoints, sreq.lat, RadiusOf(sreq))]
            /\ spc' = "done"
            /\ UNCHANGED sfailed
    /\ UNCHANGED <<helpPoints, sreq, srows>>
    /\ UNCHANGED <<reporting, accounts>>

\* route: validationResult(req), and the 400
CalculateReceive(r) ==
    /\ ScoringReceived(r)
    /\ IF ~(RouteFields \subseteq r.given)
       THEN sres' = [status |-> 400, success |-> FALSE] /\ spc' = "done"
       ELSE sres' = NoResponse /\ spc' = "zones"

\* route: catch (error)
RouteCatch ==
    /\ sfailed' = TRUE
    /\ sres' = [status |-> 500, success |-> FALSE]
    /\ spc' = "done"

\* route: the heat_zones query; ok: the query succeeds
CalculateZones(ok) ==
    /\ spc = "zones"
    /\ sreq.endpoint = "calculate"
    /\ IF ~ok THEN RouteCatch /\ UNCHANGED srows
       ELSE /\ \E first \in Firsts(ZonesInRoute(zones, sreq.originLat,
                                                sreq.destinationLat)) :
                 srows' = RouteRows(zones, sreq.originLat, sreq.destinationLat, first)
            /\ spc' = "help"
            /\ UNCHANGED <<sres, sfailed>>
    /\ UNCHANGED <<helpPoints, sreq>>
    /\ UNCHANGED <<reporting, accounts>>

\* route: the help_points query and res.json; ok: the query succeeds
CalculateRespond(ok) ==
    /\ spc = "help"
    /\ sreq.endpoint = "calculate"
    /\ IF ~ok THEN RouteCatch
       ELSE /\ \E c \in Limited(HelpInRoute(helpPoints, sreq.originLat,
                                            sreq.destinationLat), HelpLimit) :
                 sres' = [status |-> 200, success |-> TRUE,
                          safetyScore |-> RouteScore(srows),
                          safetyLevel |-> RouteLevel(RouteScore(srows)),
                          distanceKm |->
                              DistanceKm(DistanceMetres(sreq.originLat,
                                                        sreq.destinationLat)),
                          estimatedTimeMin |->
                              EstimatedTime(DistanceMetres(sreq.originLat,
                                                           sreq.destinationLat)),
                          dangerZones |-> Len(srows),
                          helpPointsNearby |-> HelpEntries(helpPoints, c)]
            /\ spc' = "done"
            /\ UNCHANGED sfailed
    /\ UNCHANGED <<helpPoints, sreq, srows>>
    /\ UNCHANGED <<reporting, accounts>>

\* GET /api/heatmap, /types, /summary and /high-risk

\* requests to the heat map endpoints that query heat_zones: given are the
\* parameters of the query string
HeatmapRequests ==
    {r \in [endpoint : {"heatmap", "summary", "high-risk"},
            given : {{"zoneType"}, {"zoneType", "minIntensity"}, {"lat", "lng", "radius"},
                     {"lat", "lng"}, {"limit"}, {"lat"}},
            zoneType : {"crime"}, minIntensity : {5}, lat : {0}, lng : {Lng},
            radius : {1}, limit : {2}] :
        \/ r.endpoint = "heatmap"
             /\ r.given \in {{"zoneType"}, {"zoneType", "minIntensity"},
                             {"lat", "lng", "radius"}}
        \/ r.endpoint = "summary" /\ r.given \in {{"lat", "lng"}, {"lat"}}
        \/ r.endpoint = "high-risk" /\ r.given \in {{"limit"}, {"lat", "lng", "radius"}}}

\* if (lat && lng): the filter by location, with the radius given or the
\* default of the endpoint
InReach(r, z, radius) ==
    ({"lat", "lng"} \subseteq r.given) =>
        WithinKm(r.lat, z.latitude, IF "radius" \in r.given THEN r.radius ELSE radius)

\* the ids of the rows the query of GET /api/heatmap matches
HeatmapMatches(zs, r) ==
    {id \in DOMAIN zs :
        /\ zs[id].intensity >= (IF "minIntensity" \in r.given THEN r.minIntensity
                                ELSE DefaultMinIntensity)
        /\ "zoneType" \in r.given => zs[id].zone_type = r.zoneType
        /\ InReach(r, zs[id], HeatmapRadiusKm)}

\* the ids of the rows the query of GET /api/heatmap/high-risk matches
HighRiskMatches(zs, r) ==
    {id \in DOMAIN zs :
        /\ zs[id].intensity >= HighRiskFrom
        /\ InReach(r, zs[id], HighRiskRadiusKm)}

\* ORDER BY a DESC, b DESC: whether the row of rank x comes before that of y
Before(x, y) == x[1] > y[1] \/ (x[1] = y[1] /\ x[2] > y[2])

\* the orders the store can return the rows m in, under ORDER BY: rows of the
\* same rank come in any order
RECURSIVE Orders(_, _)
Orders(m, rank) ==
    IF m = {} THEN {<<>>}
    ELSE UNION {{<<x>> \o s : s \in Orders(m \ {x}, rank)} :
                    x \in {x \in m : \A y \in m : ~Before(rank[y], rank[x])}}

\* result.rows.map(z => ...)
HeatRow(zs, id) ==
    [uuid |-> id, latitude |-> zs[id].latitude, longitude |-> zs[id].longitude,
     intensity |-> zs[id].intensity, type |-> zs[id].zone_type,
     incidentCount |-> zs[id].incident_count,
     lastIncidentAt |-> zs[id].last_incident_at]

HeatRows(zs, order) == [i \in 1..Len(order) |-> HeatRow(zs, order[i])]

\* LIMIT n
FirstRows(order, n) == SubSeq(order, 1, Min(n, Len(order)))

RECURSIVE SumOver(_, _)
SumOver(m, f) ==
    IF m = {} THEN 0
    ELSE LET x == CHOOSE y \in m : TRUE IN f[x] + SumOver(m \ {x}, f)

RECURSIVE MaxOver(_, _)
MaxOver(m, f) ==
    IF m = {} THEN 0
    ELSE LET x == CHOOSE y \in m : TRUE IN Max(f[x], MaxOver(m \ {x}, f))

\* summary: one entry for each zone_type of GROUP BY; avgIntensity is
\* parseFloat(AVG(intensity)).toFixed(1), in tenths
Summary(zs, m) ==
    [t \in {zs[id].zone_type : id \in m} |->
        LET g == {id \in m : zs[id].zone_type = t}
        IN  [zoneCount |-> Cardinality(g),
             totalIncidents |-> SumOver(g, [id \in g |-> zs[id].incident_count]),
             avgIntensity |->
                 RoundDiv(10 * SumOver(g, [id \in g |-> zs[id].intensity]),
                          Cardinality(g)),
             maxIntensity |-> MaxOver(g, [id \in g |-> zs[id].intensity])]]

\* GET /api/heatmap/types: no query, the four types
HeatmapTypes ==
    /\ ScoringReceived([endpoint |-> "types"])
    /\ sres' = [status |-> 200, success |-> TRUE,
                types |-> <<"crime", "accident", "congestion", "danger">>]
    /\ spc' = "done"

\* a request to one of the three endpoints that query heat_zones is received
HeatmapReceive(r) ==
    /\ ScoringReceived(r)
    /\ sres' = NoResponse
    /\ spc' = "zones"

\* the catch of the three endpoints
HeatmapCatch ==
    /\ sfailed' = TRUE
    /\ sres' = [status |-> 500, success |-> FALSE]
    /\ spc' = "done"

\* GET /api/heatmap: the query and res.json; ok: the query succeeds
HeatmapQuery(ok) ==
    /\ spc = "zones"
    /\ sreq.endpoint = "heatmap"
    /\ IF ~ok THEN HeatmapCatch
       ELSE /\ \E order \in Orders(HeatmapMatches(zones, sreq),
                                   [id \in DOMAIN zones |-> <<zones[id].intensity, 0>>]) :
                 sres' = [status |-> 200, success |-> TRUE,
                          zones |-> HeatRows(zones, order)]
            /\ spc' = "done"
            /\ UNCHANGED sfailed
    /\ UNCHANGED <<helpPoints, sreq, srows>>
    /\ UNCHANGED <<reporting, accounts>>

\* GET /api/heatmap/summary: the query and res.json; ok: the query succeeds
SummaryQuery(ok) ==
    /\ spc = "zones"
    /\ sreq.endpoint = "summary"
    /\ IF ~ok THEN HeatmapCatch
       ELSE /\ sres' = [status |-> 200, success |-> TRUE,
                        summary |->
                            Summary(zones, {id \in DOMAIN zones :
                                              InReach(sreq, zones[id], SummaryRadiusKm)})]
            /\ spc' = "done"
            /\ UNCHANGED sfailed
    /\ UNCHANGED <<helpPoints, sreq, srows>>
    /\ UNCHANGED <<reporting, accounts>>

\* a query of the high-risk zones that ages the zones it has read
HighRiskQuery_Ageing(ok) ==
    /\ spc = "zones"
    /\ sreq.endpoint = "high-risk"
    /\ IF ~ok THEN HeatmapCatch /\ UNCHANGED zones
       ELSE /\ \E order \in Orders(HighRiskMatches(zones, sreq),
                                   [id \in DOMAIN zones |->
                                       <<zones[id].intensity, zones[id].incident_count>>]) :
                 sres' = [status |-> 200, success |-> TRUE,
                          highRiskZones |->
                              HeatRows(zones,
                                       FirstRows(order, IF "limit" \in sreq.given
                                                        THEN sreq.limit ELSE HighRiskLimit))]
            /\ zones' = [id \in DOMAIN zones |->
                            IF id \in HighRiskMatches(zones, sreq)
                            THEN [zones[id] EXCEPT !.intensity = @ - 1] ELSE zones[id]]
            /\ spc' = "done"
            /\ UNCHANGED sfailed
    /\ UNCHANGED <<helpPoints, sreq, srows>>
    /\ UNCHANGED <<reports, posting, accounts>>

\* GET /api/heatmap/high-risk: the query and res.json; ok: the query succeeds
HighRiskQuery(ok) ==
    /\ spc = "zones"
    /\ sreq.endpoint = "high-risk"
    /\ IF ~ok THEN HeatmapCatch
       ELSE /\ \E order \in Orders(HighRiskMatches(zones, sreq),
                                   [id \in DOMAIN zones |->
                                       <<zones[id].intensity, zones[id].incident_count>>]) :
                 sres' = [status |-> 200, success |-> TRUE,
                          highRiskZones |->
                              HeatRows(zones,
                                       FirstRows(order, IF "limit" \in sreq.given
                                                        THEN sreq.limit ELSE HighRiskLimit))]
            /\ spc' = "done"
            /\ UNCHANGED sfailed
    /\ UNCHANGED <<helpPoints, sreq, srows>>
    /\ UNCHANGED <<reporting, accounts>>

\* DELETE /api/help-points/:uuid by an authority: the point is deactivated
DeactivateHelpPoint(id) ==
    /\ id \in DOMAIN helpPoints
    /\ helpPoints[id].is_active
    /\ Cardinality({h \in DOMAIN helpPoints : ~helpPoints[h].is_active}) <= MaxInactive
    /\ helpPoints' = [helpPoints EXCEPT ![id].is_active = FALSE]
    /\ UNCHANGED <<spc, sreq, srows, sres, sfailed>>
    /\ UNCHANGED <<reporting, accounts>>

\* one request to the scoring and heat map endpoints at a time, any query can
\* fail, help points are deactivated meanwhile
NextScore ==
    \/ \E r \in SafetyRequests : SafetyScoreReceive(r)
    \/ \E ok \in BOOLEAN : SafetyScoreZones(ok)
    \/ \E ok \in BOOLEAN : SafetyScoreRespond(ok)
    \/ \E r \in CalculateRequests : CalculateReceive(r)
    \/ \E ok \in BOOLEAN : CalculateZones(ok)
    \/ \E ok \in BOOLEAN : CalculateRespond(ok)
    \/ HeatmapTypes
    \/ \E r \in HeatmapRequests : HeatmapReceive(r)
    \/ \E ok \in BOOLEAN : HeatmapQuery(ok)
    \/ \E ok \in BOOLEAN : SummaryQuery(ok)
    \/ \E ok \in BOOLEAN : HighRiskQuery(ok)
    \/ \E id \in 1..HelpRows : DeactivateHelpPoint(id)

SpecScore == InitScore /\ [][NextScore]_vars

----------------------------------------------------------------------------
(* The endpoints of the authorities: verifyToken, isAuthority, handler *)

\* the values body('status').isIn([...]) accepts
ReportStatuses == {"pending", "reviewing", "confirmed", "resolved", "rejected"}

\* the values body('alertType').isIn([...]) accepts
AlertTypes ==
    {"accident", "congestion", "obstruction", "danger_zone", "weather", "event",
     "general"}

\* the Authorization headers of the modelled requests: none, a token
\* jwt.verify rejects, an expired one, and a token of the server for each id
Tokens(ids) ==
    {NoToken, [kind |-> "invalid", user |-> 0], [kind |-> "expired", user |-> 0]}
    \cup [kind : {"valid"}, user : ids]

\* the requests to the endpoints of the authorities: PUT
\* /api/reports/:uuid/status (id: the report, value: body.status), POST
\* /api/alerts (value: body.alertType), DELETE /api/alerts/:uuid, DELETE
\* /api/help-points/:uuid, GET /api/stats/dashboard
AuthorityRequests(ids) ==
    [endpoint : {"report-status"}, token : Tokens(ids), id : {1, 2},
     value : {"resolved", "bogus"}]
    \cup [endpoint : {"alert-create"}, token : Tokens(ids), id : {0},
          value : {"general", "bogus"}]
    \cup [endpoint : {"alert-delete"}, token : Tokens(ids), id : {1}, value : {""}]
    \cup [endpoint : {"help-delete"}, token : Tokens(ids), id : {2}, value : {""}]
    \cup [endpoint : {"dashboard"}, token : Tokens(ids), id : {0}, value : {""}]

\* the middleware of a route of the authorities answers or hands the request
\* to the handler
Gate(r, response) ==
    /\ areq' = r
    /\ IF response # Passed
       THEN apc' = "idle" /\ ares' = response
       ELSE apc' = "handler" /\ ares' = NoResponse

\* a route without the middleware isAuthority
AuthorityReceive_NoGate(r, ok) ==
    /\ apc = "idle"
    /\ r.endpoint = "alert-create" => Len(alerts) < MaxAlerts
    /\ Gate(r, verifyToken(users, r.token, ok))
    /\ UNCHANGED <<users, alerts, reports, zones, posting, scoring>>

\* a request arrives at a route "verifyToken, isAuthority, ..."; ok: the query
\* of verifyToken succeeds
AuthorityReceive(r, ok) ==
    /\ apc = "idle"
    /\ r.endpoint = "alert-create" => Len(alerts) < MaxAlerts
    /\ Gate(r, IF verifyToken(users, r.token, ok) # Passed
               THEN verifyToken(users, r.token, ok)
               ELSE isAuthority(users[r.token.user]))
    /\ UNCHANGED <<users, alerts, reports, zones, posting, scoring>>

\* the handler sends its response
Send(code, text) ==
    /\ apc' = "idle"
    /\ ares' = [status |-> code, message |-> text]
    /\ UNCHANGED areq

\* PUT /api/reports/:uuid/status; ok: the UPDATE succeeds
UpdateReportStatus(ok) ==
    /\ apc = "handler"
    /\ areq.endpoint = "report-status"
    /\ IF areq.value \notin ReportStatuses
       THEN Send(400, "Estado invalido") /\ UNCHANGED reports
       ELSE IF ~ok
       THEN Send(500, "Error al actualizar estado") /\ UNCHANGED reports
       ELSE IF areq.id \notin DOMAIN reports
       THEN Send(404, "Reporte no encontrado") /\ UNCHANGED reports
       ELSE /\ reports' = [reports EXCEPT ![areq.id].status = areq.value]
            /\ Send(200, "Estado del reporte actualizado")
    /\ UNCHANGED <<users, alerts, zones, posting, scoring>>

\* the row INSERT INTO alerts stores; created_by is req.user.id
AlertRow(r) ==
    [alert_type |-> r.value, is_active |-> TRUE, created_by |-> r.token.user]

\* POST /api/alerts; ok: the INSERT succeeds
CreateAlert(ok) ==
    /\ apc = "handler"
    /\ areq.endpoint = "alert-create"
    /\ IF areq.value \notin AlertTypes
       THEN Send(400, "Tipo de alerta invalido") /\ UNCHANGED alerts
       ELSE IF ~ok
       THEN Send(500, "Error al crear alerta") /\ UNCHANGED alerts
       ELSE /\ alerts' = Append(alerts, AlertRow(areq))
            /\ Send(201, "Alerta creada exitosamente")
    /\ UNCHANGED <<users, reports, zones, posting, scoring>>

\* DELETE /api/alerts/:uuid; ok: the UPDATE succeeds
DeactivateAlert(ok) ==
    /\ apc = "handler"
    /\ areq.endpoint = "alert-delete"
    /\ IF ~ok
       THEN Send(500, "Error al desactivar alerta") /\ UNCHANGED alerts
       ELSE IF areq.id \notin DOMAIN alerts
       THEN Send(404, "Alerta no encontrada") /\ UNCHANGED alerts
       ELSE /\ alerts' = [alerts EXCEPT ![areq.id].is_active = FALSE]
            /\ Send(200, "Alerta desactivada")
    /\ UNCHANGED <<users, reports, zones, posting, scoring>>

\* DELETE /api/help-points/:uuid; ok: the UPDATE succeeds
DeleteHelpPoint(ok) ==
    /\ apc = "handler"
    /\ areq.endpoint = "help-delete"
    /\ IF ~ok
       THEN Send(500, "Error al eliminar punto de ayuda") /\ UNCHANGED helpPoints
       ELSE IF areq.id \notin DOMAIN helpPoints
       THEN Send(404, "Punto de ayuda no encontrado") /\ UNCHANGED helpPoints
       ELSE /\ helpPoints' = [helpPoints EXCEPT ![areq.id].is_active = FALSE]
            /\ Send(200, "Punto de ayuda eliminado")
    /\ UNCHANGED <<spc, sreq, srows, sres, sfailed>>
    /\ UNCHANGED <<users, alerts, reports, zones, posting>>

\* a query that selects u.full_name as it is
ReporterName_Always(us, r) ==
    IF r.user_id \in DOMAIN us THEN us[r.user_id].full_name ELSE "NULL"

\* "CASE WHEN r.is_anonymous THEN NULL ELSE u.full_name END" over the LEFT
\* JOIN of users
ReporterName(us, r) ==
    IF r.is_anonymous = "true" THEN "NULL"
    ELSE IF r.user_id \in DOMAIN us THEN us[r.user_id].full_name
    ELSE "NULL"

\* the ids of the rows of reports "ORDER BY r.created_at DESC LIMIT n"
RecentReports(rs, n) == [k \in 1..Min(n, Len(rs)) |-> Len(rs) + 1 - k]

\* a row of recentReports in the response of the dashboard
DashboardRow(id) ==
    [id |-> id, status |-> reports[id].status,
     reporterName |-> ReporterName(users, reports[id])]

\* GET /api/stats/dashboard: the pending reports and the recent reports of
\* the response; ok: the queries succeed
Dashboard(ok) ==
    /\ apc = "handler"
    /\ areq.endpoint = "dashboard"
    /\ IF ~ok
       THEN Send(500, "Error al obtener dashboard")
       ELSE /\ apc' = "idle"
            /\ ares' =
                 [status |-> 200,
                  pendingReports |->
                      Cardinality({id \in DOMAIN reports :
                                     reports[id].status \in {"pending", "reviewing"}}),
                  recentReports |->
                      [k \in DOMAIN RecentReports(reports, DashboardLimit) |->
                          DashboardRow(RecentReports(reports, DashboardLimit)[k])]]
            /\ UNCHANGED areq
    /\ UNCHANGED <<users, alerts, reports, zones, posting, scoring>>

\* a report of the first user, sent as anonymous
SeedReports ==
    << ReportRow([incidentType |-> LabelRobo, latitude |-> 0, longitude |-> Lng,
                  user |-> 1, isAnonymous |-> "true"]) >>

InitAuthority ==
    /\ zones = <<>>
    /\ reports = SeedReports
    /\ now = 0
    /\ started = 0
    /\ client = NoRequest
    /\ InitSlots
    /\ InitScoring
    /\ InitAccounts

\* one request at a time to the endpoints of the authorities, with every
\* kind of token, for every user and for a user whose row is gone; any query
\* can fail
NextAuthority ==
    \/ \E r \in AuthorityRequests(0..Len(users)), ok \in BOOLEAN : AuthorityReceive(r, ok)
    \/ \E ok \in BOOLEAN : UpdateReportStatus(ok)
    \/ \E ok \in BOOLEAN : CreateAlert(ok)
    \/ \E ok \in BOOLEAN : DeactivateAlert(ok)
    \/ \E ok \in BOOLEAN : DeleteHelpPoint(ok)
    \/ \E ok \in BOOLEAN : Dashboard(ok)

SpecAuthority == InitAuthority /\ [][NextAuthority]_vars

----------------------------------------------------------------------------
(* The accounts: register, register-authority, login, and the routes of the
   users behind verifyToken *)

\* the addresses isEmail accepts among those of the modelled requests, all
\* of them as normalizeEmail leaves them
isEmail(email) == email \in {"ana@x.pe", "beto@x.pe", "dani@x.pe", "eva@x.pe", "noe@x.pe"}

\* registerValidation: fullName trimmed and not empty, email, password of
\* MinPassword characters or more
RegisterErrors(r) ==
    r.fullName \in {"", " "} \/ ~isEmail(r.email) \/ Len(r.password) < MinPassword

\* loginValidation: email, password not empty
LoginErrors(r) == ~isEmail(r.email) \/ r.password = <<>>

\* "userType = 'citizen'" of the handler of register
RegisteredType(r) == IF r.userType = "undefined" THEN "citizen" ELSE r.userType

\* the bodies of POST /api/auth/register: a new address, one that is taken and
\* a malformed one; with and without a userType
RegisterRequests ==
    [endpoint : {"register"}, fullName : {"Eva"},
     email : {"eva@x.pe", "noe@x.pe", "ana@x.pe", "eva"},
     password : {Secreto, Corto}, userType : {"undefined", "admin", "superuser"}]

\* the bodies of POST /api/auth/register-authority
RegisterAuthorityRequests ==
    [endpoint : {"register-authority"}, fullName : {"Eva"},
     email : {"eva@x.pe", "ana@x.pe"}, password : {Secreto},
     institution : {"PNP", ""}, badgeNumber : {"7"}]

\* the bodies of POST /api/auth/login
LoginRequests ==
    [endpoint : {"login"}, email : {"ana@x.pe", "dani@x.pe", "eva@x.pe", "eva"},
     password : {Secreto, Corto, <<>>}]

\* the requests to GET /api/users/me and GET /api/users
UsersRequests(ids) == [endpoint : {"me", "users"}, token : Tokens(ids)]

\* the requests to GET /api/stats/dashboard
DashboardRequests(ids) ==
    [endpoint : {"dashboard"}, token : Tokens(ids), id : {0}, value : {""}]

\* the ids of the rows of users with an email
WithEmail(us, email) == {id \in DOMAIN us : us[id].email = email}

\* jwt.sign({uuid: user.uuid, ...}): the token in the response
Signed(id) == [kind |-> "valid", user |-> id]

\* the response of register, register-authority and login: the user and a
\* token for it
Welcome(code, us, id) ==
    [status |-> code, userType |-> us[id].user_type, token |-> Signed(id)]

\* a public handler answers at once
Reply(r, response) ==
    /\ areq' = r
    /\ ares' = response
    /\ apc' = "idle"

\* POST /api/auth/register; ok: the queries succeed.  The INSERT stores the
\* userType of the body; a value the CHECK of user_type refuses makes it throw
Register(r, ok) ==
    /\ apc = "idle"
    /\ Len(users) < Len(SeedUsers) + MaxRegistered
    /\ IF RegisterErrors(r)
       THEN Reply(r, [status |-> 400, message |-> "errors"]) /\ UNCHANGED users
       ELSE IF ~ok
       THEN /\ Reply(r, [status |-> 500, message |-> "Error al registrar usuario"])
            /\ UNCHANGED users
       ELSE IF WithEmail(users, r.email) # {}
       THEN /\ Reply(r, [status |-> 400, message |-> "El email ya esta registrado"])
            /\ UNCHANGED users
       ELSE IF ~UserTypeCheck(RegisteredType(r))
       THEN /\ Reply(r, [status |-> 500, message |-> "Error al registrar usuario"])
            /\ UNCHANGED users
       ELSE /\ users' = Append(users,
                [full_name |-> r.fullName, email |-> r.email,
                 password |-> Hash(r.password), user_type |-> RegisteredType(r),
                 is_active |-> TRUE, via |-> "register"])
            /\ Reply(r, Welcome(201, users', Len(users')))
    /\ UNCHANGED <<alerts, reports, zones, posting, scoring>>

\* POST /api/auth/register-authority; ok: the queries succeed
RegisterAuthority(r, ok) ==
    /\ apc = "idle"
    /\ Len(users) < Len(SeedUsers) + MaxRegistered
    /\ IF RegisterErrors(r) \/ r.institution = "" \/ r.badgeNumber = ""
       THEN Reply(r, [status |-> 400, message |-> "errors"]) /\ UNCHANGED users
       ELSE IF ~ok
       THEN /\ Reply(r, [status |-> 500, message |-> "Error al registrar autoridad"])
            /\ UNCHANGED users
       ELSE IF WithEmail(users, r.email) # {}
       THEN /\ Reply(r, [status |-> 400, message |-> "El email ya esta registrado"])
            /\ UNCHANGED users
       ELSE /\ users' = Append(users,
                [full_name |-> r.fullName, email |-> r.email,
                 password |-> Hash(r.password), user_type |-> "authority",
                 is_active |-> TRUE, via |-> "register-authority"])
            /\ Reply(r, Welcome(201, users', Len(users')))
    /\ UNCHANGED <<alerts, reports, zones, posting, scoring>>

\* POST /api/auth/login; ok: the query succeeds
Login(r, ok) ==
    /\ apc = "idle"
    /\ Reply(r,
         IF LoginErrors(r) THEN [status |-> 400, message |-> "errors"]
         ELSE IF ~ok THEN [status |-> 500, message |-> "Error al iniciar sesion"]
         ELSE IF WithEmail(users, r.email) = {}
         THEN [status |-> 401, message |-> "Credenciales invalidas"]
         ELSE LET id == CHOOSE u \in WithEmail(users, r.email) : TRUE
              IN  IF ~users[id].is_active
                  THEN [status |-> 401, message |-> "Cuenta desactivada"]
                  ELSE IF ~Compare(r.password, users[id].password)
                  THEN [status |-> 401, message |-> "Credenciales invalidas"]
                  ELSE Welcome(200, users, id))
    /\ UNCHANGED <<users, alerts, reports, zones, posting, scoring>>

\* a request arrives at GET /api/users/me ("verifyToken") or at GET
\* /api/users ("verifyToken, isAdmin"); ok: the query of verifyToken succeeds
UsersReceive(r, ok) ==
    /\ apc = "idle"
    /\ Gate(r, IF verifyToken(users, r.token, ok) # Passed
               THEN verifyToken(users, r.token, ok)
               ELSE IF r.endpoint = "users" THEN isAdmin(users[r.token.user])
               ELSE Passed)
    /\ UNCHANGED <<users, alerts, reports, zones, posting, scoring>>

\* GET /api/users/me; ok: the query succeeds
Me(ok) ==
    /\ apc = "handler"
    /\ areq.endpoint = "me"
    /\ IF ~ok THEN Send(500, "Error al obtener perfil")
       ELSE IF areq.token.user \notin DOMAIN users
       THEN Send(404, "Usuario no encontrado")
       ELSE /\ apc' = "idle"
            /\ ares' = [status |-> 200, email |-> users[areq.token.user].email,
                        userType |-> users[areq.token.user].user_type]
            /\ UNCHANGED areq
    /\ UNCHANGED <<users, alerts, reports, zones, posting, scoring>>

\* GET /api/users; ok: the queries succeed
ListUsers(ok) ==
    /\ apc = "handler"
    /\ areq.endpoint = "users"
    /\ IF ~ok THEN Send(500, "Error al listar usuarios")
       ELSE /\ apc' = "idle"
            /\ ares' = [status |-> 200, total |-> Len(users)]
            /\ UNCHANGED areq
    /\ UNCHANGED <<users, alerts, reports, zones, posting, scoring>>

\* an account is deactivated in the database: no route writes is_active of
\* users
DeactivateUser(id) ==
    /\ id \in DOMAIN users
    /\ users[id].is_active
    /\ Cardinality({u \in DOMAIN users : ~users[u].is_active}) <= MaxDeactivated
    /\ users' = [users EXCEPT ![id].is_active = FALSE]
    /\ UNCHANGED <<alerts, apc, areq, ares, reports, zones, posting, scoring>>

\* accounts are created, log in and are deactivated; one request at a time
\* goes to a route behind verifyToken, behind isAdmin or behind isAuthority,
\* with every kind of token; any query can fail
NextAccounts ==
    \/ \E r \in RegisterRequests, ok \in BOOLEAN : Register(r, ok)
    \/ \E r \in RegisterAuthorityRequests, ok \in BOOLEAN : RegisterAuthority(r, ok)
    \/ \E r \in LoginRequests, ok \in BOOLEAN : Login(r, ok)
    \/ \E r \in UsersRequests(0..Len(users)), ok \in BOOLEAN : UsersReceive(r, ok)
    \/ \E r \in DashboardRequests(0..Len(users)), ok \in BOOLEAN : AuthorityReceive(r, ok)
    \/ \E ok \in BOOLEAN : Me(ok)
    \/ \E ok \in BOOLEAN : ListUsers(ok)
    \/ \E ok \in BOOLEAN : Dashboard(ok)
    \/ \E id \in 1..(Len(SeedUsers) + MaxRegistered) : DeactivateUser(id)

SpecAccounts == InitAuthority /\ [][NextAccounts]_vars

----------------------------------------------------------------------------
(* The read endpoints of the reports *)

\* the middleware optionalAuth: req.user, the id of the active user of a
\* valid token, or 0 when it sets none; it never answers; ok: its query
\* succeeds
optionalAuth(us, token, ok) ==
    IF token.kind = "valid" /\ ok /\ token.user \in DOMAIN us
       /\ us[token.user].is_active = TRUE
    THEN token.user
    ELSE 0

\* the Authorization headers of the requests that read reports: none, a
\* citizen, a deactivated account
Readers == {NoToken} \cup [kind : {"valid"}, user : {1, 4}]

\* the requests to GET /api/reports and GET /api/reports/:uuid (id: the row
\* of that uuid, or one past the table)
ReportsRequests ==
    [endpoint : {"list"}, token : Readers, id : {0}, user : {0}]
    \cup [endpoint : {"view"}, token : Readers, id : {1, MaxReported + 1}, user : {0}]

\* "CASE WHEN r.is_anonymous THEN NULL ELSE u.uuid END" over the LEFT JOIN of
\* users; the uuid of a user is its id, NULL is 0
ReporterUuid(us, r) ==
    IF r.is_anonymous = "true" THEN 0
    ELSE IF r.user_id \in DOMAIN us THEN r.user_id
    ELSE 0

\* a request arrives at a route "optionalAuth, ..." of the reports; a view
\* counts when fewer than MaxViews have been counted
ReportsReceive(r, ok) ==
    /\ apc = "idle"
    /\ r.endpoint = "view" =>
           \A id \in DOMAIN reports : reports[id].views_count < MaxViews
    /\ areq' = [r EXCEPT !.user = optionalAuth(users, r.token, ok)]
    /\ apc' = "handler"
    /\ ares' = NoResponse
    /\ UNCHANGED <<users, alerts, reports, zones, posting, scoring>>

\* a row of reports in the response of the list
ListRow(id) ==
    [id |-> id, isAnonymous |-> reports[id].is_anonymous,
     reporterName |-> ReporterName(users, reports[id])]

\* GET /api/reports without filters: the rows, the newest first; ok: the
\* query succeeds
ListReports(ok) ==
    /\ apc = "handler"
    /\ areq.endpoint = "list"
    /\ IF ~ok
       THEN Send(500, "Error al obtener reportes")
       ELSE /\ apc' = "idle"
            /\ ares' =
                 [status |-> 200,
                  reports |->
                      [k \in DOMAIN RecentReports(reports, ListLimit) |->
                          ListRow(RecentReports(reports, ListLimit)[k])]]
            /\ UNCHANGED areq
    /\ UNCHANGED <<users, alerts, reports, zones, posting, scoring>>

\* GET /api/reports/:uuid: the UPDATE of views_count, then the SELECT;
\* counted: the UPDATE succeeds, ok: the SELECT succeeds
ViewReport(counted, ok) ==
    /\ apc = "handler"
    /\ areq.endpoint = "view"
    /\ IF counted /\ areq.id \in DOMAIN reports
       THEN reports' = [reports EXCEPT ![areq.id].views_count = @ + 1]
       ELSE UNCHANGED reports
    /\ IF ~counted \/ ~ok
       THEN Send(500, "Error al obtener reporte")
       ELSE IF areq.id \notin DOMAIN reports
       THEN Send(404, "Reporte no encontrado")
       ELSE /\ apc' = "idle"
            /\ ares' =
                 [status |-> 200,
                  report |->
                      [id |-> areq.id,
                       isAnonymous |-> reports'[areq.id].is_anonymous,
                       reporterName |-> ReporterName(users, reports'[areq.id]),
                       reporterUuid |-> ReporterUuid(users, reports'[areq.id]),
                       viewsCount |-> reports'[areq.id].views_count]]
            /\ UNCHANGED areq
    /\ UNCHANGED <<users, alerts, zones, posting, scoring>>

\* the bodies of POST /api/reports of two users: isAnonymous true, false,
\* null, or missing
ReporterRequests ==
    [authorization : {"bearer"}, incidentType : {LabelRobo}, latitude : {0},
     longitude : {Lng}, user : {1, 2},
     isAnonymous : {"true", "false", "null", "undefined"}]

ArriveReports ==
    /\ started < MaxReported
    /\ \E r \in ReporterRequests : VerifyToken(1, r, TRUE)

\* reports are created one after the other, and meanwhile one request at a
\* time reads them: the list, the single view, the dashboard; any query of
\* the readers and the INSERT of the report can fail
NextReports ==
    \/ ArriveReports
    \/ \E ok \in BOOLEAN : CreateReport(1, ok)
    \/ LookupZone(1, TRUE)
    \/ UpdateZone(1, TRUE, now)
    \/ InsertZone(1, TRUE, now)
    \/ Respond(1)
    \/ \E r \in ReportsRequests, ok \in BOOLEAN : ReportsReceive(r, ok)
    \/ \E ok \in BOOLEAN : ListReports(ok)
    \/ \E counted \in BOOLEAN, ok \in BOOLEAN : ViewReport(counted, ok)
    \/ \E r \in DashboardRequests({2}) : AuthorityReceive(r, TRUE)
    \/ \E ok \in BOOLEAN : Dashboard(ok)

InitReports ==
    /\ zones = <<>>
    /\ reports = <<>>
    /\ now = 0
    /\ started = 0
    /\ client = NoRequest
    /\ InitSlots
    /\ InitScoring
    /\ InitAccounts

SpecReports == InitReports /\ [][NextReports]_vars

----------------------------------------------------------------------------
(* Properties *)

\* slot p leaves updateHeatZone by this step with its write executed
Wrote(p) == pc[p] = "write" /\ pc'[p] = "respond" /\ ~storeError'[p]

\* C1: from a table whose zones all have an intensity in 1..10, and under any
\* interleaving of the requests, every heat zone has 1 <= intensity <= 10.
IntensityInRange ==
    \A id \in DOMAIN zones : zones[id].intensity >= 1 /\ zones[id].intensity <= 10

\* a zone at intensity 10 has counted one more incident and stays at 10
IntensityStaysAtCap ==
    \E id \in DOMAIN zones :
        /\ zones[id].intensity = 10
        /\ zones[id].incident_count = 17
        /\ \E p \in Procs : pc[p] = "respond" /\ zoneWrites[p] = 1

\* C2: after n incidents of one type at one point, one after the other, on an
\* empty table and with no failing query, there is exactly one zone, of that
\* type, with incident_count n and intensity min(10, n).
SeqOneZone ==
    (pc[1] \in {"idle", "done"} /\ Len(reports) > 0) =>
        /\ Len(zones) = 1
        /\ zones[1].zone_type = ZoneTypeOf(trim(client.incidentType))
        /\ zones[1].incident_count = Len(reports)
        /\ zones[1].intensity = (IF Len(reports) < 10 THEN Len(reports) ELSE 10)

\* the eleventh incident has been answered: the count is 11, the intensity 10
SeqEleven ==
    /\ pc[1] = "done"
    /\ status[1] = 201
    /\ Len(reports) = 11
    /\ Len(zones) = 1
    /\ zones[1].incident_count = 11
    /\ zones[1].intensity = 10

\* C3: an updateHeatZone that has found a zone and writes creates no zone and
\* changes exactly one of the zones it found: incident_count goes up by 1,
\* intensity becomes min(10, intensity + 1) of the intensity it found, and
\* last_incident_at becomes the time of the write.
UpdatesOneFoundZone ==
    [][\A p \in Procs :
        (Wrote(p) /\ Len(rows[p]) > 0) =>
            /\ DOMAIN zones' = DOMAIN zones
            /\ \E i \in 1..Len(rows[p]) :
                LET id == rows[p][i].id
                    found == rows[p][i].intensity
                IN  /\ id \in DOMAIN zones
                    /\ zones'[id].incident_count = zones[id].incident_count + 1
                    /\ zones'[id].intensity = (IF found + 1 < 10 THEN found + 1 ELSE 10)
                    /\ zones'[id].last_incident_at = now'
                    /\ now' >= now
                    /\ zones'[id].latitude = zones[id].latitude
                    /\ zones'[id].longitude = zones[id].longitude
                    /\ zones'[id].zone_type = zones[id].zone_type
                    /\ \A other \in DOMAIN zones \ {id} : zones'[other] = zones[other]
      ]_vars

\* a request has found the zone of the table at intensity 9 and has updated it
FoundZoneUpdated ==
    \E p \in Procs :
        /\ pc[p] = "respond"
        /\ zoneWrites[p] = 1
        /\ Len(rows[p]) > 0
        /\ rows[p][1].intensity = 9
        /\ zones[rows[p][1].id].intensity = 10
        /\ zones[rows[p][1].id].incident_count = rows[p][1].incident_count + 1

\* this step adds one zone and changes no other: the zone is no farther than
\* half of unit from the incident of slot p in each coordinate
CreatesOneZone(p, unit) ==
    /\ Len(zones') = Len(zones) + 1
    /\ \A id \in DOMAIN zones : zones'[id] = zones[id]
    /\ LET z == zones'[Len(zones')]
       IN  /\ 2 * Abs(z.latitude - req[p].latitude) <= unit
           /\ 2 * Abs(z.longitude - req[p].longitude) <= unit
           /\ z.zone_type = ZoneTypeOf(trim(req[p].incidentType))
           /\ z.intensity = 1
           /\ z.incident_count = 1

\* C4 as stated: an updateHeatZone that has found no zone and writes creates
\* exactly one zone, at the coordinates of the incident, of the resolved type,
\* with intensity 1 and incident_count 1, and changes no other zone.
CreatesZoneAtIncident ==
    [][\A p \in Procs :
        (Wrote(p) /\ Len(rows[p]) = 0) =>
            CreatesOneZone(p, 0)
      ]_vars

\* C4: an updateHeatZone that has found no zone and writes creates exactly one
\* zone, at the coordinates of the incident rounded to 8 decimals, of the
\* resolved type, with intensity 1 and incident_count 1, and changes no other
\* zone.
CreatesZoneAtRounded ==
    [][\A p \in Procs :
        (Wrote(p) /\ Len(rows[p]) = 0) =>
            /\ CreatesOneZone(p, StoreScale)
            /\ zones'[Len(zones')].latitude % StoreScale = 0
            /\ zones'[Len(zones')].longitude % StoreScale = 0
      ]_vars

\* a zone has been created for an incident whose latitude has a 9th decimal
ZoneCreatedOffIncident ==
    \E p \in Procs :
        /\ pc[p] = "respond"
        /\ zoneWrites[p] = 1
        /\ Len(rows[p]) = 0
        /\ req[p].latitude % StoreScale # 0
        /\ zones[Len(zones)].latitude # req[p].latitude
        /\ zones[Len(zones)].intensity = 1

\* two zones of one type whose latitudes are no more than d apart
SameTypeWithin(i, j, d) ==
    /\ i # j
    /\ zones[i].zone_type = zones[j].zone_type
    /\ Abs(zones[i].latitude - zones[j].latitude) <= d

\* C5 as stated: with the requests served one after the other, no two zones of
\* one type are within 0.1 km of each other.
NoNearDuplicates ==
    \A i, j \in DOMAIN zones : ~SameTypeWithin(i, j, NearNanoDeg)

\* C5: with the requests served one after the other, no two zones of one type
\* are nearer to each other than 0.1 km less the rounding of a stored
\* coordinate, half a unit of the 8th decimal.
NoNearDuplicatesButRounding ==
    \A i, j \in DOMAIN zones : ~SameTypeWithin(i, j, NearNanoDeg - StoreScale \div 2)

\* all requests are answered, and two zones of one type, the second created
\* after a lookup that did not find the first, are within 0.1 km
RoundedIntoRange ==
    /\ \A p \in Procs : pc[p] \in {"idle", "done"}
    /\ \E i, j \in DOMAIN zones :
        /\ i < j
        /\ SameTypeWithin(i, j, NearNanoDeg)
        /\ zones[j].incident_count = 1

\* slots p and q have both looked up the same point for the same type, found
\* nothing, and executed their INSERT
BothInserted(p, q) ==
    /\ p # q
    /\ pc[p] = "respond" /\ pc[q] = "respond"
    /\ Len(rows[p]) = 0 /\ Len(rows[q]) = 0
    /\ zoneWrites[p] = 1 /\ zoneWrites[q] = 1
    /\ zoneType[p] = zoneType[q]
    /\ req[p].latitude = req[q].latitude
    /\ req[p].longitude = req[q].longitude

\* C6: the lookup and the write of updateHeatZone are not one atomic step: two
\* calls for the same point and type that both look up before either writes
\* both insert, and leave two zones of that type within 0.1 km of each other.
RaceLeavesTwoZones ==
    \A p, q \in Procs :
        BothInserted(p, q) =>
            \E i, j \in DOMAIN zones :
                /\ SameTypeWithin(i, j, NearNanoDeg)
                /\ zones[i].zone_type = zoneType[p]
                /\ zones[i].latitude = zones[j].latitude
                /\ 2 * Abs(zones[i].latitude - req[p].latitude) <= StoreScale
                /\ zones[i].incident_count = 1
                /\ zones[j].incident_count = 1

\* both calls of the race have inserted, on a table that was empty
RaceOnEmptyTable ==
    /\ BothInserted(1, 2)
    /\ Len(zones) = 2

\* C7: a failure of the store inside updateHeatZone is swallowed: the report
\* stays persisted, the failing call leaves every heat zone unchanged, and the
\* request is answered 201.
FailureSwallowed ==
    /\ [](\A p \in Procs :
            storeError[p] =>
                /\ pc[p] = "respond"
                /\ status[p] = 0
                /\ zoneWrites[p] = 0
                /\ reportId[p] \in DOMAIN reports)
    /\ [][\A p \in Procs :
            /\ (~storeError[p] /\ storeError'[p]) =>
                    /\ zones' = zones
                    /\ reports' = reports
                    /\ calls'[p] = 1
            /\ (storeError[p] /\ ~storeError'[p]) =>
                    /\ status'[p] = 201
                    /\ zones' = zones
                    /\ reports' = reports
       ]_vars

\* the UPDATE of a found zone has failed, the request is about to be answered
UpdateFailed ==
    \E p \in Procs :
        /\ storeError[p]
        /\ pc[p] = "respond"
        /\ Len(rows[p]) > 0
        /\ reportId[p] \in DOMAIN reports

\* slot p receives a request by this step
Received(p) == started' # started /\ FirstFree(p)

\* slot p answers its request by this step
Answered(p) == pc'[p] = "done" /\ (pc[p] \notin {"idle", "done"} \/ Received(p))

\* C8: updateHeatZone is invoked exactly once per persisted report, after the
\* INSERT of the report and before the response; a request that is rejected
\* or whose INSERT fails invokes it zero times and changes no heat zone.
InvokedOncePerReport ==
    /\ [](\A p \in Procs :
            /\ calls[p] <= 1
            /\ calls[p] = 1 <=> pc[p] \in {"write", "respond"}
            /\ calls[p] = 1 => (reportId[p] \in DOMAIN reports /\ status[p] = 0)
            /\ reportId[p] # 0 => pc[p] \in {"updateHeatZone", "write", "respond"}
            /\ zoneWrites[p] > 0 => calls[p] = 1)
    /\ [][\A p \in Procs :
            /\ Answered(p) =>
                    IF status'[p] = 201
                    THEN calls[p] = 1 /\ reportId[p] \in DOMAIN reports
                    ELSE /\ status'[p] \in {400, 401, 500}
                         /\ calls[p] = 0
                         /\ reportId[p] = 0
                         /\ zoneWrites[p] = 0
                         /\ zones' = zones
                         /\ reports' = reports
            /\ reports' # reports => pc'[p] \in {pc[p], "updateHeatZone"}
       ]_vars

\* one request is about to be answered 201 after its one call, the other was
\* rejected by the validation
OneCallOneRejected ==
    \E p, q \in Procs :
        /\ pc[p] = "respond"
        /\ calls[p] = 1
        /\ reportId[p] \in DOMAIN reports
        /\ status[q] = 400
        /\ Len(reports) = 1

\* whether label has word in it, whatever the case of the letters of label
ContainsIgnoringCase(label, word) ==
    \E i \in 1..Len(label) :
        /\ i + Len(word) - 1 <= Len(label)
        /\ \A k \in 1..Len(word) : LowerChar(label[i + k - 1]) = word[k]

\* the zone type the statement of C9 gives a label
TypeByPriority(label) ==
    CASE ContainsIgnoringCase(label, KwAccidente) -> "accident"
      [] /\ ~ContainsIgnoringCase(label, KwAccidente)
         /\ \/ ContainsIgnoringCase(label, KwRobo)
            \/ ContainsIgnoringCase(label, KwCrimen) -> "crime"
      [] /\ ~ContainsIgnoringCase(label, KwAccidente)
         /\ ~ContainsIgnoringCase(label, KwRobo)
         /\ ~ContainsIgnoringCase(label, KwCrimen)
         /\ \/ ContainsIgnoringCase(label, KwCongestion)
            \/ ContainsIgnoringCase(label, KwTrafico) -> "congestion"
      [] OTHER -> "danger"

\* C9: the zone type of a label is the first that matches, whatever the case:
\* "accidente" gives accident, else "robo" or "crimen" gives crime, else
\* "congestion" (with its accent) or "trafico" (with its accent) gives
\* congestion, else danger; every label has one.
ClassifiedByPriority ==
    \A p \in Procs :
        pc[p] \in {"write", "respond"} =>
            /\ zoneType[p] = TypeByPriority(req[p].incidentType)
            /\ zoneType[p] \in {"accident", "crime", "congestion", "danger"}
            /\ req[p].incidentType = LabelAccidente => zoneType[p] = "accident"
            /\ req[p].incidentType = LabelRoboUpper => zoneType[p] = "crime"
            /\ req[p].incidentType = LabelCongestion => zoneType[p] = "congestion"
            /\ req[p].incidentType = LabelPoste => zoneType[p] = "danger"
            /\ req[p].incidentType = LabelRoboAccidente => zoneType[p] = "accident"
            /\ req[p].incidentType = LabelTraficoRobo => zoneType[p] = "crime"
            /\ req[p].incidentType = LabelNoAccent => zoneType[p] = "danger"

\* a label with two keywords has been classified by the first in priority
TwoKeywordsClassified ==
    /\ pc[1] = "write"
    /\ req[1].incidentType = LabelRoboAccidente
    /\ zoneType[1] = "accident"

\* C10: incident_count is at least 1 in every zone, and no step lowers the
\* incident_count of a zone or removes a zone.
CountNeverDecreases ==
    /\ [](\A id \in DOMAIN zones : zones[id].incident_count >= 1)
    /\ [][\A id \in DOMAIN zones :
            /\ id \in DOMAIN zones'
            /\ zones'[id].incident_count >= zones[id].incident_count
       ]_vars

\* a zone has counted one more incident, and the UPDATE of the zone at the last int4 has
\* been refused
CountedAndRefused ==
    /\ \E id \in DOMAIN zones : zones[id].incident_count = 16
    /\ \E p \in Procs :
        /\ storeError[p]
        /\ Len(rows[p]) > 0
        /\ rows[p][1].incident_count = PgIntMax

\* C11: no operation deletes a heat zone: a zone that exists, exists in every
\* later state under the same id, at the same place and of the same type, so
\* the table only grows.
ZonesNeverDeleted ==
    [][/\ Len(zones') >= Len(zones)
       /\ \A id \in DOMAIN zones :
            /\ id \in DOMAIN zones'
            /\ zones'[id].latitude = zones[id].latitude
            /\ zones'[id].longitude = zones[id].longitude
            /\ zones'[id].zone_type = zones[id].zone_type
      ]_vars

\* the seeded table has had a zone updated and a zone added
SeedZonesKept ==
    /\ Len(zones) = Len(SeedZones) + 1
    /\ zones[1].incident_count = SeedZones[1].incident_count + 1
    /\ zones[1].zone_type = zones[Len(zones)].zone_type

\* the sum of the intensities of the zones m of the table
RECURSIVE TotalIntensity(_)
TotalIntensity(m) ==
    IF m = {} THEN 0
    ELSE LET id == CHOOSE x \in m : TRUE
         IN  zones[id].intensity + TotalIntensity(m \ {id})

\* 100 - 2 * S, no lower than 0 and no higher than 100
ClampedScore(S) ==
    IF 100 - 2 * S < 0 THEN 0 ELSE IF 100 - 2 * S > 100 THEN 100 ELSE 100 - 2 * S

\* the table's zones within radius km of the point of the safety-score request
InRadius == {id \in DOMAIN zones : Abs(zones[id].latitude - sreq.lat)
                                        <= RadiusOf(sreq) * KmNanoDeg}

\* the safety-score has answered with a score
SafetyAnswered == sreq.endpoint = "safety-score" /\ sres.status = 200

\* the route calculation has answered with a route
RouteAnswered == sreq.endpoint = "calculate" /\ sres.status = 200

\* C12: the safety-score answers clamp(100 - 2 * S, 0, 100) for the total
\* intensity S of the zones within the radius, in whatever order the rows came;
\* with no zone within the radius the score is 100 and the level "high".
SafetyScoreIsClampedSum ==
    SafetyAnswered =>
        /\ sres.safetyScore = ClampedScore(TotalIntensity(InRadius))
        /\ InRadius = {} => (sres.safetyScore = 100 /\ sres.safetyLevel = "high")

\* a score clamped at 0, from rows that did not come in the order of the table
ScoreClampedAtZero ==
    /\ SafetyAnswered
    /\ sres.safetyScore = 0
    /\ 100 - 2 * TotalIntensity(InRadius) < 0
    /\ srows[1] # ScoredRow(zones, 1)

\* C13: the level is "high" for a score of 80 or more, "medium" for a score
\* from 50 to 79, "low" for a score below 50, and both endpoints answer so.
LevelByThresholds ==
    (SafetyAnswered \/ RouteAnswered) =>
        /\ sres.safetyScore >= 0 /\ sres.safetyScore <= 100
        /\ sres.safetyLevel \in {"high", "medium", "low"}
        /\ sres.safetyLevel = "high" <=> sres.safetyScore >= 80
        /\ sres.safetyLevel = "medium" <=> (sres.safetyScore >= 50 /\ sres.safetyScore < 80)
        /\ sres.safetyLevel = "low" <=> sres.safetyScore < 50

\* the route calculation has answered a score of exactly 50: "medium"
RouteAtThreshold ==
    /\ RouteAnswered
    /\ sres.safetyScore = 50
    /\ sres.safetyLevel = "medium"

\* C14: in the answer of the safety-score crimeZones is the number of fetched
\* zones of type crime, accidentZones that of type accident, dangerZones that
\* of all fetched zones, so crimeZones + accidentZones <= dangerZones.
ZoneCountsByType ==
    SafetyAnswered =>
        /\ sres.crimeZones = Cardinality({id \in InRadius : zones[id].zone_type = "crime"})
        /\ sres.accidentZones
              = Cardinality({id \in InRadius : zones[id].zone_type = "accident"})
        /\ sres.dangerZones = Cardinality(InRadius)
        /\ sres.crimeZones + sres.accidentZones <= sres.dangerZones

\* zones of every type were fetched
AllTypesCounted ==
    /\ SafetyAnswered
    /\ sres.crimeZones >= 2
    /\ sres.accidentZones >= 1
    /\ sres.dangerZones > sres.crimeZones + sres.accidentZones

\* the table's zones within 2 km of a latitude
NearEnd(lat) == {id \in DOMAIN zones : Abs(zones[id].latitude - lat) <= 2 * KmNanoDeg}

\* C15: the route calculation scores the union of the zones within 2 km of the
\* origin and the zones within 2 km of the destination: a zone near both ends
\* is counted once in dangerZones and its penalty is taken once.
RouteScoresUnionOnce ==
    RouteAnswered =>
        LET U == NearEnd(sreq.originLat) \cup NearEnd(sreq.destinationLat)
        IN  /\ sres.dangerZones = Cardinality(U)
            /\ sres.safetyScore = ClampedScore(TotalIntensity(U))

\* a route with a zone near both ends and a zone near one end, its score not
\* clamped
ZoneNearBothEnds ==
    /\ RouteAnswered
    /\ sreq.originLat # sreq.destinationLat
    /\ NearEnd(sreq.originLat) \cap NearEnd(sreq.destinationLat) # {}
    /\ NearEnd(sreq.originLat) \ NearEnd(sreq.destinationLat) # {}
    /\ sres.safetyScore > 0

\* C16: given the same zone rows the route calculation and the safety-score
\* compute the same score and the same level.
SameScoreBothEndpoints ==
    /\ RouteAnswered =>
            /\ sres.safetyScore = SafetyScore(srows)
            /\ sres.safetyLevel = SafetyLevel(SafetyScore(srows))
    /\ SafetyAnswered =>
            /\ sres.safetyScore = RouteScore(srows)
            /\ sres.safetyLevel = RouteLevel(RouteScore(srows))

\* the route calculation has answered on rows whose penalties exceed 100
RouteScoreClamped ==
    /\ RouteAnswered
    /\ sres.safetyScore = 0
    /\ sres.safetyLevel = "low"
    /\ Len(srows) >= 6

\* C17: a route whose origin and destination are the same point is answered
\* with distanceKm 0 and estimatedTimeMin 0.
SamePointNoDistance ==
    (/\ RouteAnswered
     /\ sreq.originLat = sreq.destinationLat
     /\ sreq.originLng = sreq.destinationLng) =>
        /\ sres.distanceKm = 0
        /\ sres.estimatedTimeMin = 0

\* a route from a point to itself, away from latitude 0, has been answered
SamePointAnswered ==
    /\ RouteAnswered
    /\ sreq.originLat = sreq.destinationLat
    /\ sreq.originLat # 0
    /\ sres.estimatedTimeMin = 0

\* C18: estimatedTimeMin is the integer nearest to (distance / 30) * 60 for
\* the distance between the ends, not for the distance of the response with
\* its 2 decimals; it is not negative, and no shorter distance has a longer
\* time.
TimeFromUnroundedDistance ==
    RouteAnswered =>
        LET metres == DistanceMetres(sreq.originLat, sreq.destinationLat)
            t == sres.estimatedTimeMin
        IN  /\ t \in Nat
            /\ 2 * 60 * metres >= 2 * 30 * 1000 * t - 30 * 1000
            /\ 2 * 60 * metres < 2 * 30 * 1000 * t + 30 * 1000
            /\ \A shorter \in 0..metres : EstimatedTime(shorter) <= t

\* a route of 249 m: 0.25 km in the response, 0 minutes
QuarterKmNoMinute ==
    /\ RouteAnswered
    /\ sres.distanceKm = 25
    /\ sres.estimatedTimeMin = 0

\* C19: helpPointsNearby of the route has at most 10 entries, each one a help
\* point that is active and within 1 km of the origin or of the destination
\* when the route is answered; a deactivated help point is not among them.
HelpPointsActiveNearby ==
    [][(spc = "help" /\ sres'.status = 200 /\ sreq.endpoint = "calculate") =>
          /\ Len(sres'.helpPointsNearby) <= 10
          /\ \A i \in 1..Len(sres'.helpPointsNearby) :
                LET hp == sres'.helpPointsNearby[i]
                IN  /\ hp.uuid \in DOMAIN helpPoints
                    /\ helpPoints[hp.uuid].is_active
                    /\ hp.latitude = helpPoints[hp.uuid].latitude
                    /\ \/ Abs(hp.latitude - sreq.originLat) <= KmNanoDeg
                       \/ Abs(hp.latitude - sreq.destinationLat) <= KmNanoDeg
                    /\ \A j \in 1..Len(sres'.helpPointsNearby) :
                          sres'.helpPointsNearby[j].uuid = hp.uuid => j = i
      ]_vars

\* ten help points were listed of more than ten active ones in range, and a
\* deactivated one in range is not listed
TenListedOneDeactivated ==
    /\ RouteAnswered
    /\ Len(sres.helpPointsNearby) = 10
    /\ Cardinality(HelpInRoute(helpPoints, sreq.originLat, sreq.destinationLat)) > 10
    /\ \E h \in DOMAIN helpPoints :
        /\ ~helpPoints[h].is_active
        /\ Abs(helpPoints[h].latitude - sreq.destinationLat) <= KmNanoDeg
        /\ \A i \in 1..Len(sres.helpPointsNearby) : sres.helpPointsNearby[i].uuid # h

\* C20: when a query of a scoring request fails, the request is answered 500
\* with success false and without a score; a score is answered only after
\* both queries of the request have succeeded.
FailureNoScore ==
    /\ [](/\ sfailed =>
                /\ spc = "done"
                /\ sres.status = 500
                /\ ~sres.success
                /\ DOMAIN sres = {"status", "success"}
          /\ "safetyScore" \in DOMAIN sres => (sres.status = 200 /\ ~sfailed))
    /\ [][/\ (~sfailed /\ sfailed') => spc \in {"zones", "help"}
          /\ (sres' # sres /\ "safetyScore" \in DOMAIN sres') =>
                (spc = "help" /\ ~sfailed' /\ sres'.status = 200)
       ]_vars

\* the help_points query has failed after the heat_zones query had returned
\* rows
HelpQueryFailed ==
    /\ sfailed
    /\ Len(srows) > 0
    /\ sres.status = 500

\* C21: the scoring operations are read-only: a step of GET
\* /api/stats/safety-score, of POST /api/routes/calculate or of a GET
\* /api/heatmap endpoint, answered 200, 400 or 500, leaves every heat zone and
\* every help point as it was.
ScoringReadOnly ==
    [][(<<spc, sreq, srows, sres, sfailed>>' # <<spc, sreq, srows, sres, sfailed>>) =>
          /\ zones' = zones
          /\ helpPoints' = helpPoints
          /\ reports' = reports
      ]_vars

\* the high-risk zones have been answered, the first two of more, after a
\* help point was deactivated; the tables are what they were but for that
HighRiskAnswered ==
    /\ sreq.endpoint = "high-risk"
    /\ sres.status = 200
    /\ Len(sres.highRiskZones) = 2
    /\ Cardinality(HighRiskMatches(zones, sreq)) > 2
    /\ zones = ScoreZones
    /\ \E h \in DOMAIN helpPoints : helpPoints[h].is_active # HelpTable[h].is_active

ChangedZones ==
    {id \in DOMAIN zones' : id \notin DOMAIN zones \/ zones'[id] # zones[id]}

\* C24: one updateHeatZone call changes at most one heat-zone row, and that
\* row has the type resolved from the label of the incident; every other zone,
\* of another type or of the same, is unchanged; only the write of a call
\* changes zones; the latitude, longitude and type of a zone never change.
OneZonePerCall ==
    [][/\ \A p \in Procs :
            (pc[p] = "write" /\ pc'[p] # "write") =>
                /\ Cardinality(ChangedZones) <= 1
                /\ zoneWrites'[p] = Cardinality(ChangedZones)
                /\ \A id \in ChangedZones :
                      /\ zones'[id].zone_type = TypeByPriority(req[p].incidentType)
                      /\ zones'[id].zone_type = zoneType[p]
                /\ zoneWrites[p] = 0
       /\ ChangedZones # {} => \E p \in Procs : pc[p] = "write" /\ pc'[p] = "respond"
       /\ \A id \in DOMAIN zones :
            /\ id \in DOMAIN zones'
            /\ zones'[id].latitude = zones[id].latitude
            /\ zones'[id].longitude = zones[id].longitude
            /\ zones'[id].zone_type = zones[id].zone_type
      ]_vars

\* a call has updated the seeded crime zone; the crime zone created before,
\* 0.1 km away, and the accident zone are as they were
OneOfTwoCrimeZonesUpdated ==
    \E p \in Procs :
        /\ pc[p] = "respond"
        /\ zoneWrites[p] = 1
        /\ Len(rows[p]) = 1
        /\ Len(zones) = 3
        /\ zones[1].incident_count = SeedZones[1].incident_count + 1
        /\ zones[2] = SeedZones[2]
        /\ zones[3].zone_type = "crime"
        /\ zones[3].incident_count = 1

\* what this step adds to the sum of incident_count over all zones
CountAdded ==
    SumOver(DOMAIN zones',
            [id \in DOMAIN zones' |->
                zones'[id].incident_count
                    - (IF id \in DOMAIN zones THEN zones[id].incident_count ELSE 0)])

\* C25: under any interleaving of the calls, with store failures, the sum of
\* incident_count over all zones grows by exactly 1 with each updateHeatZone
\* whose write succeeds and by nothing otherwise: it is the initial sum plus
\* the number of such calls, no incident is lost or counted twice.
CountIsWritesMade ==
    [][CountAdded = Cardinality({p \in Procs : Wrote(p)})]_vars

\* two calls have read the same incident_count of one zone before either
\* wrote, and both writes are counted
BothStaleWritesCounted ==
    /\ \A p \in Procs :
        /\ pc[p] = "respond"
        /\ zoneWrites[p] = 1
        /\ Len(rows[p]) > 0
        /\ rows[p][1].id = 1
        /\ rows[p][1].incident_count = SeedZones[1].incident_count
    /\ zones[1].incident_count = SeedZones[1].incident_count + 2

\* C26: under any interleaving of concurrent updateHeatZone calls, the
\* intensity of a zone never decreases from one state to the next.
IntensityNeverDecreases ==
    [][\A id \in DOMAIN zones :
            id \in DOMAIN zones' => zones'[id].intensity >= zones[id].intensity
      ]_vars

\* C27: every zone created by updateHeatZone has intensity <= incident_count
\* in every reachable state, under any interleaving of the calls.
CreatedIntensityWithinCount ==
    \A id \in DOMAIN zones :
        id > Len(RaceZones) => zones[id].intensity <= zones[id].incident_count

\* a created zone was updated by two calls that both read it at intensity 1:
\* it has counted 3 incidents and has intensity 2
CreatedZoneRaced ==
    /\ Len(zones) = 2
    /\ zones[2].incident_count = 3
    /\ zones[2].intensity = 2
    /\ \A p \in Procs :
        /\ pc[p] = "respond"
        /\ zoneWrites[p] = 1
        /\ Len(rows[p]) = 1
        /\ rows[p][1].id = 2
        /\ rows[p][1].intensity = 1

\* the requester the authority-only operations are for: a valid token of an
\* active user whose stored type is authority or admin
Entitled(us, token) ==
    /\ token.kind = "valid"
    /\ token.user \in DOMAIN us
    /\ us[token.user].is_active
    /\ us[token.user].user_type \in {"authority", "admin"}

\* what the authority-only operations write
AuthorityStore == <<reports, alerts, helpPoints, zones, users>>

\* a request has arrived in this step
Arrived ==
    /\ apc = "idle"
    /\ areq'.endpoint # "none"
    /\ <<apc, areq, ares>>' # <<apc, areq, ares>>

Protected == {"me", "users", "dashboard"}

\* a request with a token of the server for an account that is deactivated
\* has arrived at a route behind verifyToken
DeactivatedArrived ==
    /\ Arrived
    /\ areq'.endpoint \in Protected
    /\ areq'.token.kind = "valid"
    /\ areq'.token.user \in DOMAIN users
    /\ ~users[areq'.token.user].is_active

\* a login for an account that is deactivated has arrived
DeactivatedLogin ==
    /\ Arrived
    /\ areq'.endpoint = "login"
    /\ \E id \in WithEmail(users, areq'.email) : ~users[id].is_active

\* C28 as stated: once an account is deactivated, a request with a token of
\* it to a route behind verifyToken is answered 401 and the handler is not
\* run; a login for the account is answered 401
DeactivatedAnswered401 ==
    [][/\ DeactivatedArrived => apc' = "idle" /\ ares'.status = 401
       /\ DeactivatedLogin => ares'.status = 401]_vars

\* C28, amended: once an account is deactivated, a request with a token of
\* it to a route behind verifyToken is answered 401, or 500 with "Error de
\* autenticacion" when the query of verifyToken fails, and the handler is not
\* run; a login for the account whose body passes the validation is answered
\* 401, or 500 when its query fails
DeactivatedRefused ==
    [][/\ DeactivatedArrived =>
            /\ apc' = "idle"
            /\ \/ ares'.status = 401
               \/ ares' = [status |-> 500, message |-> "Error de autenticacion"]
       /\ (DeactivatedLogin /\ ~LoginErrors(areq')) =>
            \/ ares'.status = 401
            \/ ares' = [status |-> 500, message |-> "Error al iniciar sesion"]]_vars

\* an account registered through the API, and so given a token, has been
\* deactivated, and a request with its token has been refused
RegisteredThenDeactivatedRefused ==
    /\ apc = "idle"
    /\ areq.endpoint = "me"
    /\ areq.token.kind = "valid"
    /\ areq.token.user \in DOMAIN users
    /\ users[areq.token.user].via = "register"
    /\ ~users[areq.token.user].is_active
    /\ ares = [status |-> 401, message |-> "Cuenta desactivada"]

\* C29: an account created through POST /api/auth/register never passes
\* isAuthority or isAdmin
RegisteredNeverPrivileged ==
    (apc = "handler" /\ areq.endpoint \in {"users", "dashboard"}) =>
        users[areq.token.user].via # "register"

\* what a response shows of the reporter of a row: nothing if the stored
\* report is anonymous, the name of the user otherwise
ReporterShown(row) ==
    IF reports[row.id].is_anonymous = "true"
    THEN row.reporterName = "NULL"
    ELSE row.reporterName = users[reports[row.id].user_id].full_name

\* C30: the list of reports, the single view and the dashboard return a null
\* reporter name, and the single view a null reporter uuid, for a report
\* stored as anonymous, whoever asks, and the name of the reporter for a report
\* that is not
AnonymousReporterHidden ==
    (apc = "idle" /\ ares.status = 200) =>
        /\ areq.endpoint = "list" =>
               \A k \in DOMAIN ares.reports : ReporterShown(ares.reports[k])
        /\ areq.endpoint = "view" =>
               /\ ReporterShown(ares.report)
               /\ reports[ares.report.id].is_anonymous = "true" =>
                      ares.report.reporterUuid = 0
               /\ reports[ares.report.id].is_anonymous # "true" =>
                      ares.report.reporterUuid = reports[ares.report.id].user_id
        /\ areq.endpoint = "dashboard" =>
               \A k \in DOMAIN ares.recentReports :
                   ReporterShown(ares.recentReports[k])

\* the list has been sent to a requester without a token with an anonymous
\* report and one that is not, of the same user
ListOfBothKinds ==
    /\ apc = "idle"
    /\ areq.endpoint = "list"
    /\ areq.token = NoToken
    /\ ares.status = 200
    /\ Len(ares.reports) = 2
    /\ ares.reports[1].reporterName = "NULL"
    /\ reports[ares.reports[1].id].user_id = 2
    /\ ares.reports[2].reporterName = "Beto"

====
